---------------------------- MODULE Spec2Model ----------------------------
(***************************************************************************)
(* A model of bincode-core: the BufferWriter, the size-limit meter, the    *)
(* integer encodings (fixint, varint + zigzag), the Serializer, the        *)
(* SizeChecker and the Deserializer.                                       *)
(*                                                                         *)
(* Fixed-width integers are kept at their width.  A w-byte integer is the  *)
(* sequence of its w bytes, least significant first, so that a u64 is 8    *)
(* bytes and a u128 is 16: comparisons, casts, complement, shifts and the  *)
(* +1 of the zigzag code are computed on the bytes, with their carries.    *)
(* A signed integer is its two's complement bit pattern.                   *)
(***************************************************************************)
EXTENDS Integers, Sequences, FiniteSets, TLC

VARIABLES
    buffer,     \* BufferWriter.buffer: the backing slice (its length is the capacity)
    index,      \* BufferWriter.index
    options,    \* the Options value: [limit, endian, int, trailing]
    native,     \* the target the crate is built for: [endian, usize]
    reader,     \* the Deserializer's reader: the input not yet consumed
    target,     \* the type T of deserialize::<T>
    value,      \* the value handed to serialize / serialize_size
    call        \* the calls made so far and what the last one returned

vars == <<buffer, index, options, native, reader, target, value, call>>

---------------------------------------------------------------------------
(* Bounds of the model.                                                    *)

\* Largest small capacity of a BufferWriter's backing slice.
MaxCap == 2
\* A capacity every sample value fits in ("sufficient capacity").
LargeCap == 48
\* How far around each boundary value the integer samples reach.
Spread == 1
\* Largest byte limit handed to with_limit (besides none at all).
MaxLimit == 2

---------------------------------------------------------------------------
(* Fixed-width integers as little-endian byte sequences.                   *)

Max(S) == CHOOSE x \in S : \A y \in S : y <= x

\* The w-byte integer of a small natural number n (n < 2^24).
FromNat(n, w) ==
    [i \in 1..w |-> IF i = 1 THEN n % 256
                    ELSE IF i = 2 THEN (n \div 256) % 256
                    ELSE IF i = 3 THEN (n \div 65536) % 256
                    ELSE 0]

\* The w-byte integer with every bit set: u16::max_value(), u64::max_value(), ...
AllOnes(w) == [i \in 1..w |-> 255]

\* `a as uN` for a wider N: zero extension.
ZeroExt(a, w) == [i \in 1..w |-> IF i <= Len(a) THEN a[i] ELSE 0]

\* `a as iN` for a signed a and a wider N: sign extension.
SignExt(a, w) ==
    [i \in 1..w |-> IF i <= Len(a) THEN a[i]
                    ELSE IF a[Len(a)] >= 128 THEN 255 ELSE 0]

\* `a as uN` for a narrower N: truncation.
Trunc(a, w) == [i \in 1..w |-> a[i]]

\* Unsigned a <= b, both of one width.
ULeq(a, b) ==
    LET d == {i \in 1..Len(a) : a[i] # b[i]}
    IN  d = {} \/ a[Max(d)] < b[Max(d)]

\* The sign bit of a two's complement integer.
IsNeg(a) == a[Len(a)] >= 128

\* Signed a <= b, both of one width.
SLeq(a, b) ==
    IF IsNeg(a) # IsNeg(b) THEN IsNeg(a) ELSE ULeq(a, b)

\* !a
BitNot(a) == [i \in 1..Len(a) |-> 255 - a[i]]

\* a * 2, wrapped to the width; Mul2Overflows tells whether it wrapped.
Mul2(a) ==
    [i \in 1..Len(a) |->
        (2 * a[i] + (IF i > 1 THEN a[i - 1] \div 128 ELSE 0)) % 256]
Mul2Overflows(a) == a[Len(a)] >= 128

\* a + 1, wrapped to the width; Add1Overflows tells whether it wrapped.
Add1(a) ==
    [i \in 1..Len(a) |->
        IF \A j \in 1..(i - 1) : a[j] = 255 THEN (a[i] + 1) % 256 ELSE a[i]]
Add1Overflows(a) == \A i \in 1..Len(a) : a[i] = 255

\* a - 1, wrapped to the width.
Sub1(a) ==
    [i \in 1..Len(a) |->
        IF \A j \in 1..(i - 1) : a[j] = 0 THEN (a[i] + 255) % 256 ELSE a[i]]

\* a / 2
Div2(a) ==
    [i \in 1..Len(a) |->
        a[i] \div 2 + (IF i < Len(a) THEN (a[i + 1] % 2) * 128 ELSE 0)]

\* a % 2 == 0
IsEven(a) == a[1] % 2 = 0

\* Whether a is below 2^24, and then its value as a natural number.
FitsNat(a) == \A i \in 4..Len(a) : a[i] = 0
ToNat(a) == a[1] + 256 * (IF Len(a) >= 2 THEN a[2] ELSE 0)
                 + 65536 * (IF Len(a) >= 3 THEN a[3] ELSE 0)

RECURSIVE AddN(_, _)
AddN(a, n) == IF n = 0 THEN a ELSE AddN(Add1(a), n - 1)
RECURSIVE SubN(_, _)
SubN(a, n) == IF n = 0 THEN a ELSE SubN(Sub1(a), n - 1)

\* The values within Spread of a boundary value, wrapping at the width.
Around(a) == {AddN(a, d) : d \in 0..Spread} \cup {SubN(a, d) : d \in 0..Spread}

\* 2^(8k) - 1 at width w: the largest value of k bytes.
MaxOfBytes(k, w) == [i \in 1..w |-> IF i <= k THEN 255 ELSE 0]
\* 2^(8w-1): the sign bit alone (iN::min_value()).
SignBit(w) == [i \in 1..w |-> IF i = w THEN 128 ELSE 0]

---------------------------------------------------------------------------
(* CoreWrite and the BufferWriter.  A writer is [kind, buffer, index]:     *)
(* kind "ref" is `&mut BufferWriter` and kind "val" is `BufferWriter`,     *)
(* the two types CoreWrite is implemented for.  A panic ends the program:  *)
(* the result "panic" is the unwinding of an out-of-bounds index.          *)

\* BufferWriter::new
BufferWriter_new(slice) == [buffer |-> slice, index |-> 0]

\* BufferWriter::written_len
written_len(w) == w.index

\* BufferWriter::written_buffer
written_buffer(w) == SubSeq(w.buffer, 1, w.index)

\* StoreByte that always stores into the first byte of the buffer
StoreByte_first(w, val) ==
    IF w.index >= Len(w.buffer)
    THEN [w |-> w, res |-> "panic"]
    ELSE [w |-> [buffer |-> [w.buffer EXCEPT ![1] = val],
                 index |-> w.index + 1],
          res |-> "Ok"]

\* buffer[index] = val; index += 1 (the indexing panics out of bounds)
StoreByte(w, val) ==
    IF w.index >= Len(w.buffer)
    THEN [w |-> w, res |-> "panic"]
    ELSE [w |-> [buffer |-> [w.buffer EXCEPT ![w.index + 1] = val],
                 index |-> w.index + 1],
          res |-> "Ok"]

\* write that gives up what was written when the buffer is full
write_ref_reset(w, val) ==
    IF w.index >= Len(w.buffer)
    THEN [w |-> [w EXCEPT !.index = 0], res |-> "BufferTooSmall"]
    ELSE StoreByte(w, val)

\* <&mut BufferWriter as CoreWrite>::write
write_ref(w, val) ==
    IF w.index >= Len(w.buffer)
    THEN [w |-> w, res |-> "BufferTooSmall"]
    ELSE StoreByte(w, val)

\* <BufferWriter as CoreWrite>::write
write_val(w, val) ==
    IF Len(w.buffer) = 0
    THEN [w |-> w, res |-> "BufferTooSmall"]
    ELSE StoreByte(w, val)

\* <BufferWriter as CoreWrite>::write of lib.rs, which checks nothing
write_val_lib(w, val) == StoreByte(w, val)

\* W::write for the writer type `kind`
write(kind, w, val) ==
    IF kind = "ref" THEN write_ref(w, val)
    ELSE IF kind = "val" THEN write_val(w, val)
    ELSE write_val_lib(w, val)

\* CoreWrite::write_all: write each byte in order, stopping at the first
\* error (the slice is walked half by half, which keeps the evaluation of
\* a long slice shallow)
RECURSIVE write_all(_, _, _)
write_all(kind, w, bytes) ==
    IF bytes = <<>> THEN [w |-> w, res |-> "Ok"]
    ELSE IF Len(bytes) = 1 THEN write(kind, w, bytes[1])
    ELSE LET h == Len(bytes) \div 2
             r == write_all(kind, w, SubSeq(bytes, 1, h))
         IN  IF r.res # "Ok" THEN r
             ELSE write_all(kind, r.w, SubSeq(bytes, h + 1, Len(bytes)))

\* The bytes of a write_all whose write returned Ok
RECURSIVE write_all_done(_, _, _)
write_all_done(kind, w, bytes) ==
    IF bytes = <<>> THEN <<>>
    ELSE LET r == write(kind, w, Head(bytes))
         IN  IF r.res # "Ok" THEN <<>>
             ELSE <<Head(bytes)>> \o write_all_done(kind, r.w, Tail(bytes))

WriterKinds == {"ref", "val", "lib"}

---------------------------------------------------------------------------
(* The size-limit meter.  A limit is [bounded, k]: Infinite is             *)
(* [bounded |-> FALSE, k |-> 0], Bounded(k) is [bounded |-> TRUE, k |-> k].*)

Infinite == [bounded |-> FALSE, k |-> 0]
Bounded(k) == [bounded |-> TRUE, k |-> k]

\* <Bounded as SizeLimit>::add that refuses to use the budget up
Bounded_add_gt(l, n) ==
    IF l.k > n
    THEN [limit |-> [l EXCEPT !.k = l.k - n], res |-> "Ok"]
    ELSE [limit |-> l, res |-> "LimitReached"]

\* <Bounded as SizeLimit>::add
Bounded_add(l, n) ==
    IF l.k >= n
    THEN [limit |-> [l EXCEPT !.k = l.k - n], res |-> "Ok"]
    ELSE [limit |-> l, res |-> "LimitReached"]

\* <Infinite as SizeLimit>::add
Infinite_add(l, n) == [limit |-> l, res |-> "Ok"]

\* SizeLimit::add of the limit's type
SizeLimit_add(l, n) == IF l.bounded THEN Bounded_add(l, n) ELSE Infinite_add(l, n)

---------------------------------------------------------------------------
(* Options.  DefaultOptions is {Infinite, Little, Varint, Reject}; every   *)
(* builder wraps the options it is called on in a WithOther* struct that   *)
(* overrides one associated type of InternalOptions and hands the others   *)
(* on.  The Serializer and the Deserializer see the four associated types  *)
(* and the meter that limit() returns: the record [limit, endian, int,     *)
(* trailing] that InternalOptions resolves a builder chain to.             *)

\* DefaultOptions::new(): DefaultOptions(Infinite)
DefaultOptions == [w |-> "DefaultOptions", limit |-> Infinite]

\* Options::with_no_limit / with_limit: WithOtherLimit::new(self, limit)
with_no_limit(o) == [w |-> "WithOtherLimit", options |-> o, new_limit |-> Infinite]
with_limit(o, k) == [w |-> "WithOtherLimit", options |-> o, new_limit |-> Bounded(k)]

\* with_endian that wraps a new DefaultOptions: what was configured is lost
with_endian_reset(o, e) == [w |-> "WithOtherEndian", options |-> DefaultOptions, endian |-> e]

\* Options::with_little_endian / with_big_endian / with_native_endian:
\* WithOtherEndian::<Self, E>::new(self)
with_endian(o, e) == [w |-> "WithOtherEndian", options |-> o, endian |-> e]
\* Options::with_varint_encoding / with_fixint_encoding: WithOtherIntEncoding::new(self)
with_int_encoding(o, i) == [w |-> "WithOtherIntEncoding", options |-> o, int |-> i]
\* Options::reject_trailing_bytes / allow_trailing_bytes: WithOtherTrailing::new(self)
with_trailing(o, t) == [w |-> "WithOtherTrailing", options |-> o, trailing |-> t]

\* InternalOptions::limit(&mut self) of DefaultOptions and the WithOther* structs
RECURSIVE limit(_)
limit(o) ==
    CASE o.w = "DefaultOptions" -> o.limit
      [] o.w = "WithOtherLimit" -> o.new_limit
      [] OTHER -> limit(o.options)

\* <O as InternalOptions>::Endian
RECURSIVE Endian(_)
Endian(o) ==
    CASE o.w = "DefaultOptions" -> "Little"
      [] o.w = "WithOtherEndian" -> o.endian
      [] OTHER -> Endian(o.options)

\* <O as InternalOptions>::IntEncoding
RECURSIVE IntEncoding(_)
IntEncoding(o) ==
    CASE o.w = "DefaultOptions" -> "Varint"
      [] o.w = "WithOtherIntEncoding" -> o.int
      [] OTHER -> IntEncoding(o.options)

\* <O as InternalOptions>::Trailing
RECURSIVE Trailing(_)
Trailing(o) ==
    CASE o.w = "DefaultOptions" -> "Reject"
      [] o.w = "WithOtherTrailing" -> o.trailing
      [] OTHER -> Trailing(o.options)

\* The Options as their users see them.
InternalOptions(o) ==
    [limit |-> limit(o), endian |-> Endian(o), int |-> IntEncoding(o),
     trailing |-> Trailing(o)]

Endians == {"Little", "Big", "Native"}
IntEncodings == {"Varint", "Fixint"}
Trailings == {"Reject", "Allow"}

---------------------------------------------------------------------------
(* Values.  A value is [t, n, kids]: t names its serde shape, n holds its  *)
(* scalar (the bytes of an integer, least significant first; the code      *)
(* point of a char; the bytes of a &str or &[u8]; the variant index of an  *)
(* enum variant as a u32) and kids its parts (the payload of Some, the     *)
(* inner value of a newtype, the fields of a tuple, struct or variant).    *)
(* The two bools are the shapes "true" and "false", as the two Options are *)
(* "none" and "some".  A usize is kept as 8 bytes.  A "seq" or "map" holds *)
(* in n the length its Serialize passes to serialize_seq / serialize_map:  *)
(* <<k>> for Some(k), <<>> for None (a sequence that does not know its     *)
(* length); the kids of a map are its keys and values in turn.             *)

V(t, n, kids) == [t |-> t, n |-> n, kids |-> kids]

UnsignedTypes == {"u16", "u32", "u64", "u128"}
SignedTypes == {"i16", "i32", "i64", "i128"}
IntTypes == UnsignedTypes \cup SignedTypes

\* core::mem::size_of::<T>()
size_of(t) ==
    CASE t \in {"u8", "i8"} -> 1
      [] t \in {"u16", "i16"} -> 2
      [] t \in {"u32", "i32", "f32"} -> 4
      [] t \in {"u64", "i64", "f64"} -> 8
      [] t \in {"u128", "i128"} -> 16

---------------------------------------------------------------------------
(* Endianness: the byteorder type the Options select.                      *)

\* <O::Endian as BincodeByteOrder>::Endian
ByteOrder(o) == IF o.endian = "Native" THEN native.endian ELSE o.endian

RECURSIVE Reverse(_)
Reverse(q) == IF q = <<>> THEN <<>> ELSE Append(Reverse(Tail(q)), Head(q))

\* Endian_write in network order whatever the Options say
Endian_write_big(o, v) == Reverse(v)

\* ByteOrder::write_u16 / write_u32 / write_u64 / write_u128 into a buffer of the width
Endian_write(o, v) ==
    IF ByteOrder(o) = "Little" THEN [i \in 1..Len(v) |-> v[i]] ELSE Reverse(v)

\* ByteOrder::read_u16 / read_u32 / read_u64 / read_u128 of a buffer of the width
Endian_read(o, bytes) ==
    IF ByteOrder(o) = "Little" THEN [i \in 1..Len(bytes) |-> bytes[i]] ELSE Reverse(bytes)

---------------------------------------------------------------------------
(* The varint discriminator bytes.                                         *)

SINGLE_BYTE_MAX == 250
U16_BYTE == 251
U32_BYTE == 252
U64_BYTE == 253
U128_BYTE == 254

---------------------------------------------------------------------------
(* Zigzag.  The *_overflows predicates tell whether the arithmetic of the  *)
(* code leaves the width (a panic in a build with overflow checks).        *)

\* zigzag_encode without the + 1 of the negative integers
zigzag_encode_even(n) ==
    IF IsNeg(n) THEN Mul2(BitNot(n)) ELSE Mul2(n)

\* VarintEncoding::zigzag_encode(n: i64) -> u64
zigzag_encode(n) ==
    IF IsNeg(n) THEN Add1(Mul2(BitNot(n))) ELSE Mul2(n)

zigzag_encode_overflows(n) ==
    IF IsNeg(n)
    THEN Mul2Overflows(BitNot(n)) \/ Add1Overflows(Mul2(BitNot(n)))
    ELSE Mul2Overflows(n)

\* zigzag_decode without the complement of the odd codes
zigzag_decode_plain(n) == Div2(n)

\* VarintEncoding::zigzag_decode(n: u64) -> i64
zigzag_decode(n) ==
    IF IsEven(n) THEN Div2(n) ELSE BitNot(Div2(n))

\* VarintEncoding::zigzag128_encode(n: i128) -> u128
zigzag128_encode(n) ==
    IF IsNeg(n) THEN Add1(Mul2(BitNot(n))) ELSE Mul2(n)

\* VarintEncoding::zigzag128_decode(n: u128) -> i128
zigzag128_decode(n) ==
    IF IsEven(n) THEN Div2(n) ELSE BitNot(Div2(n))

---------------------------------------------------------------------------
(* The Serializer.  Its state is [kind, w, options, res]: the writer (of   *)
(* type `kind`), the Options it owns and the Result of the calls so far;   *)
(* `?` returns at the first result that is not Ok.                         *)

Serializer_new(kind, w, o) == [kind |-> kind, w |-> w, options |-> o, res |-> "Ok"]

\* the `?` operator: go on with F only after an Ok
Then(s, F(_)) == IF s.res # "Ok" THEN s ELSE F(s)

\* .map_err(SerializeError::Write)
WriteError(res) ==
    IF res = "BufferTooSmall" THEN "Write(BufferTooSmall)" ELSE res

\* Serializer::serialize_byte
serialize_byte(s, v) ==
    LET r == write(s.kind, s.w, v)
    IN  [s EXCEPT !.w = r.w, !.res = WriteError(r.res)]

\* self.writer.write_all(bytes).map_err(SerializeError::Write)
serialize_raw(s, bytes) ==
    LET r == write_all(s.kind, s.w, bytes)
    IN  [s EXCEPT !.w = r.w, !.res = WriteError(r.res)]

\* Serializer::serialize_literal_u16 / _u32 / _u64 / _u128 (impl_serialize_literal)
serialize_literal(s, v) == serialize_raw(s, Endian_write(s.options, v))

\* serialize_varint with `<` for the first `<=`: 250 takes the u16 form
serialize_varint_lt(s, n) ==
    IF ULeq(n, FromNat(SINGLE_BYTE_MAX - 1, 8))
    THEN serialize_byte(s, n[1])
    ELSE IF ULeq(n, ZeroExt(AllOnes(2), 8))
    THEN Then(serialize_byte(s, U16_BYTE), LAMBDA t : serialize_literal(t, Trunc(n, 2)))
    ELSE IF ULeq(n, ZeroExt(AllOnes(4), 8))
    THEN Then(serialize_byte(s, U32_BYTE), LAMBDA t : serialize_literal(t, Trunc(n, 4)))
    ELSE Then(serialize_byte(s, U64_BYTE), LAMBDA t : serialize_literal(t, n))

\* VarintEncoding::serialize_varint(ser, n: u64)
serialize_varint(s, n) ==
    IF ULeq(n, FromNat(SINGLE_BYTE_MAX, 8))
    THEN serialize_byte(s, n[1])
    ELSE IF ULeq(n, ZeroExt(AllOnes(2), 8))
    THEN Then(serialize_byte(s, U16_BYTE), LAMBDA t : serialize_literal(t, Trunc(n, 2)))
    ELSE IF ULeq(n, ZeroExt(AllOnes(4), 8))
    THEN Then(serialize_byte(s, U32_BYTE), LAMBDA t : serialize_literal(t, Trunc(n, 4)))
    ELSE Then(serialize_byte(s, U64_BYTE), LAMBDA t : serialize_literal(t, n))

\* VarintEncoding::serialize_varint128(ser, n: u128)
serialize_varint128(s, n) ==
    IF ULeq(n, FromNat(SINGLE_BYTE_MAX, 16))
    THEN serialize_byte(s, n[1])
    ELSE IF ULeq(n, ZeroExt(AllOnes(2), 16))
    THEN Then(serialize_byte(s, U16_BYTE), LAMBDA t : serialize_literal(t, Trunc(n, 2)))
    ELSE IF ULeq(n, ZeroExt(AllOnes(4), 16))
    THEN Then(serialize_byte(s, U32_BYTE), LAMBDA t : serialize_literal(t, Trunc(n, 4)))
    ELSE IF ULeq(n, ZeroExt(AllOnes(8), 16))
    THEN Then(serialize_byte(s, U64_BYTE), LAMBDA t : serialize_literal(t, Trunc(n, 8)))
    ELSE Then(serialize_byte(s, U128_BYTE), LAMBDA t : serialize_literal(t, n))

\* <FixintEncoding as IntEncoding>::serialize_u16 .. serialize_i128
Fixint_serialize(s, t, v) == serialize_literal(s, v)

\* The obvious algorithm: the varint of the signed integer cast to u64
Varint_serialize_cast(s, t, v) ==
    CASE t \in {"u16", "u32", "u64"} -> serialize_varint(s, ZeroExt(v, 8))
      [] t \in {"i16", "i32", "i64"} -> serialize_varint(s, SignExt(v, 8))
      [] t = "u128" -> serialize_varint128(s, v)
      [] t = "i128" -> serialize_varint128(s, v)

\* <VarintEncoding as IntEncoding>::serialize_u16 .. serialize_i128
Varint_serialize(s, t, v) ==
    CASE t \in {"u16", "u32", "u64"} -> serialize_varint(s, ZeroExt(v, 8))
      [] t \in {"i16", "i32", "i64"} -> serialize_varint(s, zigzag_encode(SignExt(v, 8)))
      [] t = "u128" -> serialize_varint128(s, v)
      [] t = "i128" -> serialize_varint128(s, zigzag128_encode(v))

\* O::IntEncoding::serialize_<t>(ser, v) (impl_serialize_int)
serialize_int(s, t, v) ==
    IF s.options.int = "Fixint" THEN Fixint_serialize(s, t, v) ELSE Varint_serialize(s, t, v)

\* serialize_len through the u32 path
serialize_len_u32(s, len) == serialize_int(s, "u32", FromNat(len, 4))

\* IntEncoding::serialize_len(ser, len: usize)
serialize_len(s, len) == serialize_int(s, "u64", FromNat(len, 8))

\* serialize.rs encode_utf8(c).as_slice(), c a code point
encode_utf8(code) ==
    IF code < 128 THEN <<code>>
    ELSE IF code < 2048
    THEN <<((code \div 64) % 32) + 192, (code % 64) + 128>>
    ELSE IF code < 65536
    THEN <<((code \div 4096) % 16) + 224, ((code \div 64) % 64) + 128, (code % 64) + 128>>
    ELSE <<((code \div 262144) % 8) + 240, ((code \div 4096) % 64) + 128,
           ((code \div 64) % 64) + 128, (code % 64) + 128>>

\* <&mut Serializer as serde::Serializer>::serialize_bool: v as u8
serialize_bool(s, v) == serialize_byte(s, IF v THEN 1 ELSE 0)
\* serialize_u8
serialize_u8(s, v) == serialize_byte(s, v)
\* serialize_i8: v as u8
serialize_i8(s, v) == serialize_byte(s, v)
\* serialize_char
serialize_char(s, code) == serialize_raw(s, encode_utf8(code))
\* serialize_str
serialize_str(s, bytes) ==
    Then(serialize_len(s, Len(bytes)), LAMBDA t : serialize_raw(t, bytes))
\* serialize_bytes
serialize_bytes(s, bytes) ==
    Then(serialize_len(s, Len(bytes)), LAMBDA t : serialize_raw(t, bytes))
\* serialize_none
serialize_none(s) == serialize_byte(s, 0)
\* serialize_unit / serialize_unit_struct
serialize_unit(s) == s
\* serialize_tuple writing its arity first, as serialize_seq does
serialize_tuple_framed(s, len) == serialize_int(s, "u64", FromNat(len, 8))
\* serialize_tuple / serialize_tuple_struct / serialize_struct up to their
\* Compound: `_len` is not used
serialize_tuple(s, len) == s
\* serialize_unit_variant, and the head of serialize_newtype_variant,
\* serialize_tuple_variant and serialize_struct_variant
serialize_variant_index(s, idx) == serialize_int(s, "u32", idx)

\* serialize_seq(len: Option<usize>) up to its Compound: len.expect(..) panics on None
serialize_seq(s, len) ==
    IF len = <<>> THEN [s EXCEPT !.res = "panic"] ELSE serialize_len(s, len[1])
\* serialize_map(len: Option<usize>) up to its Compound
serialize_map(s, len) ==
    IF len = <<>> THEN [s EXCEPT !.res = "panic"] ELSE serialize_len(s, len[1])
\* <usize as Serialize>::serialize: serialize_u64(*self as u64)
serialize_usize(s, v) == serialize_int(s, "u64", v)

\* T::serialize(&mut serializer) for a value of each shape, with the serializer
\* methods that take a value: serialize_some, serialize_newtype_struct,
\* serialize_newtype_variant, and Compound's serialize_element / serialize_field.
RECURSIVE Serialize(_, _)
RECURSIVE Compound_serialize(_, _)
Serialize(v, s) ==
    CASE v.t \in {"true", "false"} -> serialize_bool(s, v.t = "true")
      [] v.t = "u8" -> serialize_u8(s, v.n[1])
      [] v.t = "i8" -> serialize_i8(s, v.n[1])
      [] v.t \in IntTypes -> serialize_int(s, v.t, v.n)
      [] v.t = "char" -> serialize_char(s, v.n[1])
      [] v.t = "str" -> serialize_str(s, v.n)
      [] v.t = "bytes" -> serialize_bytes(s, v.n)
      [] v.t = "none" -> serialize_none(s)
      [] v.t = "some" -> Then(serialize_byte(s, 1), LAMBDA t : Serialize(v.kids[1], t))
      [] v.t \in {"unit", "unit_struct"} -> serialize_unit(s)
      [] v.t = "newtype_struct" -> Serialize(v.kids[1], s)
      [] v.t \in {"tuple", "tuple_struct", "struct"} ->
            Then(serialize_tuple(s, Len(v.kids)), LAMBDA t : Compound_serialize(v.kids, t))
      [] v.t = "unit_variant" -> serialize_variant_index(s, v.n)
      [] v.t = "newtype_variant" ->
            Then(serialize_variant_index(s, v.n), LAMBDA t : Serialize(v.kids[1], t))
      [] v.t \in {"tuple_variant", "struct_variant"} ->
            Then(serialize_variant_index(s, v.n), LAMBDA t : Compound_serialize(v.kids, t))
      [] v.t = "usize" -> serialize_usize(s, v.n)
      [] v.t = "seq" ->
            Then(serialize_seq(s, v.n), LAMBDA t : Compound_serialize(v.kids, t))
      [] v.t = "map" ->
            Then(serialize_map(s, v.n), LAMBDA t : Compound_serialize(v.kids, t))

Compound_serialize(fields, s) ==
    IF fields = <<>> THEN s
    ELSE Then(Serialize(Head(fields), s), LAMBDA t : Compound_serialize(Tail(fields), t))

\* serialize(value, writer, options)
serialize(v, kind, w, o) == Serialize(v, Serializer_new(kind, w, o))

---------------------------------------------------------------------------
(* The SizeChecker: [total, res].                                          *)

\* varint_size with `<` for the first `<=`: 250 is measured at 3 bytes
varint_size_lt(n) ==
    IF ULeq(n, FromNat(SINGLE_BYTE_MAX - 1, 8)) THEN 1
    ELSE IF ULeq(n, ZeroExt(AllOnes(2), 8)) THEN 1 + size_of("u16")
    ELSE IF ULeq(n, ZeroExt(AllOnes(4), 8)) THEN 1 + size_of("u32")
    ELSE 1 + size_of("u64")

\* VarintEncoding::varint_size(n: u64)
varint_size(n) ==
    IF ULeq(n, FromNat(SINGLE_BYTE_MAX, 8)) THEN 1
    ELSE IF ULeq(n, ZeroExt(AllOnes(2), 8)) THEN 1 + size_of("u16")
    ELSE IF ULeq(n, ZeroExt(AllOnes(4), 8)) THEN 1 + size_of("u32")
    ELSE 1 + size_of("u64")

\* varint128_size without the u128 form
varint128_size_u64(n) ==
    IF ULeq(n, FromNat(SINGLE_BYTE_MAX, 16)) THEN 1
    ELSE IF ULeq(n, ZeroExt(AllOnes(2), 16)) THEN 1 + size_of("u16")
    ELSE IF ULeq(n, ZeroExt(AllOnes(4), 16)) THEN 1 + size_of("u32")
    ELSE 1 + size_of("u64")

\* VarintEncoding::varint128_size(n: u128)
varint128_size(n) ==
    IF ULeq(n, FromNat(SINGLE_BYTE_MAX, 16)) THEN 1
    ELSE IF ULeq(n, ZeroExt(AllOnes(2), 16)) THEN 1 + size_of("u16")
    ELSE IF ULeq(n, ZeroExt(AllOnes(4), 16)) THEN 1 + size_of("u32")
    ELSE IF ULeq(n, ZeroExt(AllOnes(8), 16)) THEN 1 + size_of("u64")
    ELSE 1 + size_of("u128")

\* <FixintEncoding as IntEncoding>::u16_size .. i128_size
Fixint_size(t, v) == size_of(t)

\* <VarintEncoding as IntEncoding>::u16_size .. i128_size
Varint_size(t, v) ==
    CASE t \in {"u16", "u32", "u64"} -> varint_size(ZeroExt(v, 8))
      [] t \in {"i16", "i32", "i64"} -> varint_size(zigzag_encode(SignExt(v, 8)))
      [] t = "u128" -> varint128_size(v)
      [] t = "i128" -> varint128_size(zigzag128_encode(v))

\* O::IntEncoding::<t>_size(v)
int_size(o, t, v) == IF o.int = "Fixint" THEN Fixint_size(t, v) ELSE Varint_size(t, v)

\* IntEncoding::len_size(len: usize)
len_size(o, len) == int_size(o, "u64", FromNat(len, 8))

\* SizeChecker::add_raw
add_raw(c, len) == [c EXCEPT !.total = c.total + len]
\* SizeChecker::add_discriminant
add_discriminant(c, o, idx) == add_raw(c, int_size(o, "u32", idx))
\* SizeChecker::add_len
add_len(c, o, len) == add_raw(c, len_size(o, len))

\* <&mut SizeChecker as serde::Serializer>::serialize_seq / serialize_map up
\* to their Compound: len.ok_or(SequenceMustHaveLength)?, then add_len
SizeChecker_serialize_seq(c, o, len) ==
    IF len = <<>> THEN [c EXCEPT !.res = "SequenceMustHaveLength"] ELSE add_len(c, o, len[1])
SizeChecker_serialize_map(c, o, len) ==
    IF len = <<>> THEN [c EXCEPT !.res = "SequenceMustHaveLength"] ELSE add_len(c, o, len[1])

\* T::serialize(&mut size_checker): <&mut SizeChecker as serde::Serializer>
RECURSIVE SizeOf(_, _, _)
RECURSIVE Compound_size(_, _, _)
SizeOf(v, c, o) ==
    CASE v.t \in {"true", "false", "u8", "i8"} -> add_raw(c, 1)
      [] v.t \in IntTypes -> add_raw(c, int_size(o, v.t, v.n))
      [] v.t = "char" -> add_raw(c, Len(encode_utf8(v.n[1])))
      [] v.t \in {"str", "bytes"} -> Then(add_len(c, o, Len(v.n)), LAMBDA d : add_raw(d, Len(v.n)))
      [] v.t = "none" -> add_raw(c, 1)
      [] v.t = "some" -> Then(add_raw(c, 1), LAMBDA d : SizeOf(v.kids[1], d, o))
      [] v.t \in {"unit", "unit_struct"} -> c
      [] v.t = "newtype_struct" -> SizeOf(v.kids[1], c, o)
      [] v.t \in {"tuple", "tuple_struct", "struct"} -> Compound_size(v.kids, c, o)
      [] v.t = "unit_variant" -> add_discriminant(c, o, v.n)
      [] v.t = "newtype_variant" ->
            Then(add_discriminant(c, o, v.n), LAMBDA d : SizeOf(v.kids[1], d, o))
      [] v.t = "tuple_variant" ->
            Then(add_raw(c, int_size(o, "u32", v.n)), LAMBDA d : Compound_size(v.kids, d, o))
      [] v.t = "struct_variant" ->
            Then(add_discriminant(c, o, v.n), LAMBDA d : Compound_size(v.kids, d, o))
      [] v.t = "usize" -> add_raw(c, int_size(o, "u64", v.n))
      [] v.t = "seq" ->
            Then(SizeChecker_serialize_seq(c, o, v.n), LAMBDA d : Compound_size(v.kids, d, o))
      [] v.t = "map" ->
            Then(SizeChecker_serialize_map(c, o, v.n), LAMBDA d : Compound_size(v.kids, d, o))

Compound_size(fields, c, o) ==
    IF fields = <<>> THEN c
    ELSE Then(SizeOf(Head(fields), c, o), LAMBDA d : Compound_size(Tail(fields), d, o))

\* serialize_size(value, options)
serialize_size(v, o) == SizeOf(v, [total |-> 0, res |-> "Ok"], o)

---------------------------------------------------------------------------
(* Readers.  The Deserializer's state is [rkind, reader, options, res,     *)
(* out, trace]: the reader (of type `rkind`) with the input it has left,   *)
(* the Options with their limit meter, the Result so far, the value the    *)
(* last step returned and the charges of the meter and requests of the     *)
(* reader made so far.  rkind "slice" is `&[u8]`; rkind "CoreReadBytes" is *)
(* the CoreReadBytes wrapper that Options::deserialize_bytes builds, whose *)
(* fill serves the Deserializer's read() and whose forward_bytes serves    *)
(* its read_range().                                                       *)

ReaderKinds == {"slice", "CoreReadBytes"}

\* a requested length, a usize, against the input left: len > self.len()
Exceeds(len, r) == ~FitsNat(len) \/ ToNat(len) > Len(r)

\* One request of the reader, as the trace keeps it: the length asked for,
\* the input that was left, the bytes taken and the result.
ReadEvent(d, len, took, res) ==
    [ev |-> "read", n |-> len, left |-> Len(d.reader), took |-> took, res |-> res]

\* the reader hands out its first k bytes
Take(d, len, k) ==
    [d EXCEPT !.out = SubSeq(d.reader, 1, k),
              !.reader = SubSeq(d.reader, k + 1, Len(d.reader)),
              !.trace = Append(d.trace, ReadEvent(d, len, k, "Ok"))]

\* the reader fails (or panics) and keeps its input
Refuse(d, len, res) ==
    [d EXCEPT !.res = res, !.trace = Append(d.trace, ReadEvent(d, len, 0, res))]

\* <&[u8] as CoreRead>::read_range: &self[..len] panics out of bounds
slice_read_range(d, len) ==
    IF Exceeds(len, d.reader) THEN Refuse(d, len, "panic") ELSE Take(d, len, ToNat(len))

\* <&[u8] as CoreRead>::read: the next byte, or the end-of-input error
slice_read(d) ==
    IF d.reader = <<>> THEN Refuse(d, FromNat(1, 8), "Read(EndOfInput)")
    ELSE LET e == Take(d, FromNat(1, 8), 1) IN [e EXCEPT !.out = e.out[1]]

\* <CoreReadBytes as CoreRead>::fill of a one-byte buffer
CoreReadBytes_fill(d) ==
    IF 1 > Len(d.reader) THEN Refuse(d, FromNat(1, 8), "Read(EndOfSlice)")
    ELSE LET e == Take(d, FromNat(1, 8), 1) IN [e EXCEPT !.out = e.out[1]]

\* <CoreReadBytes as CoreRead>::forward_bytes: the next len bytes, borrowed
CoreReadBytes_forward_bytes(d, len) ==
    IF Exceeds(len, d.reader) THEN Refuse(d, len, "Read(EndOfSlice)")
    ELSE Take(d, len, ToNat(len))

\* self.reader.read().map_err(DeserializeError::Read)
reader_read(d) ==
    IF d.rkind = "slice" THEN slice_read(d) ELSE CoreReadBytes_fill(d)

\* self.reader.read_range(len).map_err(DeserializeError::Read)
reader_read_range(d, len) ==
    IF d.rkind = "slice" THEN slice_read_range(d, len)
    ELSE CoreReadBytes_forward_bytes(d, len)

---------------------------------------------------------------------------
(* core::str::from_utf8 and the table of leading bytes.                    *)

IsCont(b) == b >= 128 /\ b <= 191

\* The length of the well-formed UTF-8 sequence q starts with, or 0.
Utf8Head(q) ==
    IF q = <<>> THEN 0
    ELSE IF q[1] <= 127 THEN 1
    ELSE IF q[1] >= 194 /\ q[1] <= 223
    THEN IF Len(q) >= 2 /\ IsCont(q[2]) THEN 2 ELSE 0
    ELSE IF q[1] >= 224 /\ q[1] <= 239
    THEN IF /\ Len(q) >= 3
            /\ IsCont(q[2]) /\ IsCont(q[3])
            /\ (q[1] = 224 => q[2] >= 160)
            /\ (q[1] = 237 => q[2] <= 159)
         THEN 3 ELSE 0
    ELSE IF q[1] >= 240 /\ q[1] <= 244
    THEN IF /\ Len(q) >= 4
            /\ IsCont(q[2]) /\ IsCont(q[3]) /\ IsCont(q[4])
            /\ (q[1] = 240 => q[2] >= 144)
            /\ (q[1] = 244 => q[2] <= 143)
         THEN 4 ELSE 0
    ELSE 0

\* str::from_utf8(q).is_ok()
RECURSIVE Utf8Valid(_)
Utf8Valid(q) ==
    \/ q = <<>>
    \/ /\ Utf8Head(q) > 0
       /\ Utf8Valid(SubSeq(q, Utf8Head(q) + 1, Len(q)))

\* str::from_utf8(q).chars().next() of one well-formed sequence: its code point
Utf8Char(q) ==
    IF Len(q) = 1 THEN q[1]
    ELSE IF Len(q) = 2 THEN (q[1] % 32) * 64 + (q[2] % 64)
    ELSE IF Len(q) = 3 THEN (q[1] % 16) * 4096 + (q[2] % 64) * 64 + (q[3] % 64)
    ELSE (q[1] % 8) * 262144 + (q[2] % 64) * 4096 + (q[3] % 64) * 64 + (q[4] % 64)

\* the width that the leading bits of b announce: 0xxxxxxx, 110xxxxx,
\* 1110xxxx, 11110xxx
utf8_char_width_of_bits(b) ==
    IF b <= 127 THEN 1
    ELSE IF b <= 191 THEN 0
    ELSE IF b <= 223 THEN 2
    ELSE IF b <= 239 THEN 3
    ELSE IF b <= 247 THEN 4
    ELSE 0

\* UTF8_CHAR_WIDTH[b], utf8_char_width(b)
utf8_char_width(b) ==
    IF b <= 127 THEN 1
    ELSE IF b <= 193 THEN 0
    ELSE IF b <= 223 THEN 2
    ELSE IF b <= 239 THEN 3
    ELSE IF b <= 244 THEN 4
    ELSE 0

---------------------------------------------------------------------------
(* The Deserializer.                                                       *)

\* The target: its byte order and the width of usize in bytes.
usize_size == native.usize

Deserializer_new(rkind, input, o) ==
    [rkind |-> rkind, reader |-> input, options |-> o, res |-> "Ok", out |-> <<>>,
     trace |-> <<>>]

\* Deserializer::read_bytes: charge the limit meter
read_bytes(d, count) ==
    LET r == SizeLimit_add(d.options.limit, count)
    IN  [d EXCEPT !.options.limit = r.limit,
                  !.res = IF r.res = "Ok" THEN "Ok" ELSE "LimitError",
                  !.trace = Append(d.trace, [ev |-> "add", n |-> count, res |-> r.res])]

\* Deserializer::read_literal_type::<T>
read_literal_type(d, t) == read_bytes(d, size_of(t))

\* Deserializer::deserialize_byte
deserialize_byte(d) ==
    Then(read_literal_type(d, "u8"), LAMBDA e : reader_read(e))

\* Deserializer::deserialize_literal_u16 / _u32 / _u64 / _u128 (impl_deserialize_literal)
deserialize_literal(d, t) ==
    Then(read_literal_type(d, t), LAMBDA e :
    Then(reader_read_range(e, FromNat(size_of(t), 8)), LAMBDA f :
    [f EXCEPT !.out = Endian_read(f.options, f.out)]))

\* deserialize_varint without the arm of the extension point: 255 is
\* refused like 254
deserialize_varint_range(d) ==
    Then(deserialize_byte(d), LAMBDA e :
    IF e.out <= SINGLE_BYTE_MAX THEN [e EXCEPT !.out = FromNat(e.out, 8)]
    ELSE IF e.out = U16_BYTE
    THEN Then(deserialize_literal(e, "u16"), LAMBDA f : [f EXCEPT !.out = ZeroExt(f.out, 8)])
    ELSE IF e.out = U32_BYTE
    THEN Then(deserialize_literal(e, "u32"), LAMBDA f : [f EXCEPT !.out = ZeroExt(f.out, 8)])
    ELSE IF e.out = U64_BYTE THEN deserialize_literal(e, "u64")
    ELSE [e EXCEPT !.res = "InvalidValueRange"])

\* deserialize_varint taking the u128 form and keeping its low 64 bits
deserialize_varint_u128(d) ==
    Then(deserialize_byte(d), LAMBDA e :
    IF e.out <= SINGLE_BYTE_MAX THEN [e EXCEPT !.out = FromNat(e.out, 8)]
    ELSE IF e.out = U16_BYTE
    THEN Then(deserialize_literal(e, "u16"), LAMBDA f : [f EXCEPT !.out = ZeroExt(f.out, 8)])
    ELSE IF e.out = U32_BYTE
    THEN Then(deserialize_literal(e, "u32"), LAMBDA f : [f EXCEPT !.out = ZeroExt(f.out, 8)])
    ELSE IF e.out = U64_BYTE THEN deserialize_literal(e, "u64")
    ELSE IF e.out = U128_BYTE
    THEN Then(deserialize_literal(e, "u128"), LAMBDA f : [f EXCEPT !.out = Trunc(f.out, 8)])
    ELSE [e EXCEPT !.res = "ExtensionPoint"])

\* deserialize_varint refusing a u16 form whose value fits the single byte
deserialize_varint_canonical(d) ==
    Then(deserialize_byte(d), LAMBDA e :
    IF e.out <= SINGLE_BYTE_MAX THEN [e EXCEPT !.out = FromNat(e.out, 8)]
    ELSE IF e.out = U16_BYTE
    THEN Then(deserialize_literal(e, "u16"), LAMBDA f :
              IF ToNat(f.out) <= SINGLE_BYTE_MAX
              THEN [f EXCEPT !.res = "InvalidValueRange"]
              ELSE [f EXCEPT !.out = ZeroExt(f.out, 8)])
    ELSE IF e.out = U32_BYTE
    THEN Then(deserialize_literal(e, "u32"), LAMBDA f : [f EXCEPT !.out = ZeroExt(f.out, 8)])
    ELSE IF e.out = U64_BYTE THEN deserialize_literal(e, "u64")
    ELSE IF e.out = U128_BYTE THEN [e EXCEPT !.res = "InvalidValueRange"]
    ELSE [e EXCEPT !.res = "ExtensionPoint"])

\* VarintEncoding::deserialize_varint -> u64
deserialize_varint(d) ==
    Then(deserialize_byte(d), LAMBDA e :
    IF e.out <= SINGLE_BYTE_MAX THEN [e EXCEPT !.out = FromNat(e.out, 8)]
    ELSE IF e.out = U16_BYTE
    THEN Then(deserialize_literal(e, "u16"), LAMBDA f : [f EXCEPT !.out = ZeroExt(f.out, 8)])
    ELSE IF e.out = U32_BYTE
    THEN Then(deserialize_literal(e, "u32"), LAMBDA f : [f EXCEPT !.out = ZeroExt(f.out, 8)])
    ELSE IF e.out = U64_BYTE THEN deserialize_literal(e, "u64")
    ELSE IF e.out = U128_BYTE THEN [e EXCEPT !.res = "InvalidValueRange"]
    ELSE [e EXCEPT !.res = "ExtensionPoint"])

\* VarintEncoding::deserialize_varint128 -> u128
deserialize_varint128(d) ==
    Then(deserialize_byte(d), LAMBDA e :
    IF e.out <= SINGLE_BYTE_MAX THEN [e EXCEPT !.out = FromNat(e.out, 16)]
    ELSE IF e.out = U16_BYTE
    THEN Then(deserialize_literal(e, "u16"), LAMBDA f : [f EXCEPT !.out = ZeroExt(f.out, 16)])
    ELSE IF e.out = U32_BYTE
    THEN Then(deserialize_literal(e, "u32"), LAMBDA f : [f EXCEPT !.out = ZeroExt(f.out, 16)])
    ELSE IF e.out = U64_BYTE
    THEN Then(deserialize_literal(e, "u64"), LAMBDA f : [f EXCEPT !.out = ZeroExt(f.out, 16)])
    ELSE IF e.out = U128_BYTE THEN deserialize_literal(e, "u128")
    ELSE [e EXCEPT !.res = "ExtensionPoint"])

\* cast_u64_to_usize: the usize is kept as 8 bytes
cast_u64_to_usize(d) ==
    IF ULeq(d.out, MaxOfBytes(usize_size, 8)) THEN d
    ELSE [d EXCEPT !.res = "InvalidCast(u64,usize)"]
\* cast_u64_to_u32
cast_u64_to_u32(d) ==
    IF ULeq(d.out, ZeroExt(AllOnes(4), 8)) THEN [d EXCEPT !.out = Trunc(d.out, 4)]
    ELSE [d EXCEPT !.res = "InvalidCast(u64,u32)"]
\* cast_u64_to_u16
cast_u64_to_u16(d) ==
    IF ULeq(d.out, ZeroExt(AllOnes(2), 8)) THEN [d EXCEPT !.out = Trunc(d.out, 2)]
    ELSE [d EXCEPT !.res = "InvalidCast(u64,u16)"]
\* cast_i64_to_i32
cast_i64_to_i32(d) ==
    IF /\ SLeq(d.out, ZeroExt(Sub1(SignBit(4)), 8))
       /\ SLeq(SignExt(SignBit(4), 8), d.out)
    THEN [d EXCEPT !.out = Trunc(d.out, 4)]
    ELSE [d EXCEPT !.res = "InvalidCast(i64,i32)"]
\* cast_i64_to_i16
cast_i64_to_i16(d) ==
    IF /\ SLeq(d.out, ZeroExt(Sub1(SignBit(2)), 8))
       /\ SLeq(SignExt(SignBit(2), 8), d.out)
    THEN [d EXCEPT !.out = Trunc(d.out, 2)]
    ELSE [d EXCEPT !.res = "InvalidCast(i64,i16)"]

\* .map(Self::zigzag_decode) / .map(Self::zigzag128_decode)
map_zigzag_decode(d) == [d EXCEPT !.out = zigzag_decode(d.out)]
map_zigzag128_decode(d) == [d EXCEPT !.out = zigzag128_decode(d.out)]

\* <FixintEncoding as IntEncoding>::deserialize_u16 .. deserialize_i128
Fixint_deserialize(d, t) ==
    CASE t \in {"u16", "i16"} -> deserialize_literal(d, "u16")
      [] t \in {"u32", "i32"} -> deserialize_literal(d, "u32")
      [] t \in {"u64", "i64"} -> deserialize_literal(d, "u64")
      [] t \in {"u128", "i128"} -> deserialize_literal(d, "u128")

\* <VarintEncoding as IntEncoding>::deserialize_u16 .. deserialize_i128
Varint_deserialize(d, t) ==
    CASE t = "u16" -> Then(deserialize_varint(d), cast_u64_to_u16)
      [] t = "u32" -> Then(deserialize_varint(d), cast_u64_to_u32)
      [] t = "u64" -> deserialize_varint(d)
      [] t = "i16" -> Then(Then(deserialize_varint(d), map_zigzag_decode), cast_i64_to_i16)
      [] t = "i32" -> Then(Then(deserialize_varint(d), map_zigzag_decode), cast_i64_to_i32)
      [] t = "i64" -> Then(deserialize_varint(d), map_zigzag_decode)
      [] t = "u128" -> deserialize_varint128(d)
      [] t = "i128" -> Then(deserialize_varint128(d), map_zigzag128_decode)

\* O::IntEncoding::deserialize_<t>(de)
deserialize_int(d, t) ==
    IF d.options.int = "Fixint" THEN Fixint_deserialize(d, t) ELSE Varint_deserialize(d, t)

\* IntEncoding::deserialize_len
deserialize_len(d) == Then(deserialize_int(d, "u64"), cast_u64_to_usize)

\* deserialize_bool taking every byte but 0 for true
deserialize_bool_nonzero(d) ==
    Then(deserialize_byte(d), LAMBDA e :
    IF e.out = 0 THEN [e EXCEPT !.out = V("false", <<>>, <<>>)]
    ELSE [e EXCEPT !.out = V("true", <<>>, <<>>)])

\* <&mut Deserializer as serde::Deserializer>::deserialize_bool; the byte of
\* InvalidBoolValue(value) stays in `out`
deserialize_bool(d) ==
    Then(deserialize_byte(d), LAMBDA e :
    IF e.out = 1 THEN [e EXCEPT !.out = V("true", <<>>, <<>>)]
    ELSE IF e.out = 0 THEN [e EXCEPT !.out = V("false", <<>>, <<>>)]
    ELSE [e EXCEPT !.res = "InvalidBoolValue"])

\* deserialize_u8 / deserialize_i8
deserialize_u8(d, t) ==
    Then(deserialize_byte(d), LAMBDA e : [e EXCEPT !.out = V(t, <<e.out>>, <<>>)])

\* the bytes 2..width of a char, read one by one into buf
RECURSIVE read_char_tail(_, _, _)
read_char_tail(d, buf, width) ==
    IF Len(buf) >= width THEN [d EXCEPT !.out = buf]
    ELSE Then(reader_read(d), LAMBDA e : read_char_tail(e, Append(buf, e.out), width))

\* deserialize_char
deserialize_char(d) ==
    Then(reader_read(d), LAMBDA e :
    LET width == utf8_char_width(e.out)
    IN  IF width = 1 THEN [e EXCEPT !.out = V("char", <<e.out>>, <<>>)]
        ELSE IF width = 0 THEN [e EXCEPT !.res = "InvalidCharEncoding"]
        ELSE Then(read_char_tail(e, <<e.out>>, width), LAMBDA f :
             IF Utf8Head(f.out) = width
             THEN [f EXCEPT !.out = V("char", <<Utf8Char(f.out)>>, <<>>)]
             ELSE [f EXCEPT !.res = "Utf8"]))

\* deserialize_str
deserialize_str(d) ==
    Then(deserialize_len(d), LAMBDA e :
    Then(reader_read_range(e, e.out), LAMBDA f :
    IF Utf8Valid(f.out) THEN [f EXCEPT !.out = V("str", f.out, <<>>)]
    ELSE [f EXCEPT !.res = "Utf8"]))

\* deserialize_bytes
deserialize_bytes(d) ==
    Then(deserialize_len(d), LAMBDA e :
    Then(reader_read_range(e, e.out), LAMBDA f :
    [f EXCEPT !.out = V("bytes", f.out, <<>>)]))

\* deserialize_any: panic!("Deserialize any not supported")
deserialize_any(d) == [d EXCEPT !.res = "panic"]
\* deserialize_identifier: panic!("Deserialize_identifier not supported")
deserialize_identifier(d) == [d EXCEPT !.res = "panic"]

\* deserialize_ignored_any skipping one byte of the input
deserialize_ignored_any_skip(d) == deserialize_byte(d)

\* deserialize_ignored_any: panic!("Deserialize_ignored_any not supported")
deserialize_ignored_any(d) == [d EXCEPT !.res = "panic"]
\* <&mut Deserializer as serde::Deserializer>::is_human_readable
is_human_readable(d) == FALSE

\* <usize as Deserialize>::deserialize: deserialize_u64 with serde's visitor
\* of a usize, whose visit_u64 reports a value above usize::MAX through
\* Error::custom, which DeserializeError turns into a panic
deserialize_usize(d) ==
    Then(deserialize_int(d, "u64"), LAMBDA e :
    IF ULeq(e.out, MaxOfBytes(usize_size, 8)) THEN e ELSE [e EXCEPT !.res = "panic"])

\* deserialize_option taking every tag byte: no InvalidOptionValue
deserialize_option_any(d) == reader_read(d)

\* deserialize_option up to its visitor: the tag byte is read and matched;
\* 0 is for visit_none, 1 for visit_some(self), and the byte of
\* InvalidOptionValue(val) stays in `out`
deserialize_option(d) ==
    Then(reader_read(d), LAMBDA e :
    IF e.out = 0 THEN e
    ELSE IF e.out = 1 THEN e
    ELSE [e EXCEPT !.res = "InvalidOptionValue"])

\* T::deserialize(&mut deserializer) for a type of each shape, with the
\* deserializer methods that hand the deserializer on to a visitor:
\* deserialize_option, deserialize_newtype_struct, deserialize_tuple (its
\* Access::next_element_seed, called once per field) and deserialize_enum
\* (variant_seed, then the VariantAccess method of the variant's shape).
RECURSIVE Deserialize(_, _)
RECURSIVE Access_elements(_, _, _)
RECURSIVE Access_seq(_, _, _, _)
RECURSIVE Access_map(_, _, _, _)
Deserialize(ty, d) ==
    CASE ty.t = "bool" -> deserialize_bool(d)
      [] ty.t \in {"u8", "i8"} -> deserialize_u8(d, ty.t)
      [] ty.t \in IntTypes ->
            Then(deserialize_int(d, ty.t), LAMBDA e : [e EXCEPT !.out = V(ty.t, e.out, <<>>)])
      [] ty.t = "char" -> deserialize_char(d)
      [] ty.t = "str" -> deserialize_str(d)
      [] ty.t = "bytes" -> deserialize_bytes(d)
      [] ty.t = "option" ->
            Then(deserialize_option(d), LAMBDA e :
            IF e.out = 0 THEN [e EXCEPT !.out = V("none", <<>>, <<>>)]
            ELSE Then(Deserialize(ty.kids[1], e), LAMBDA f :
                 [f EXCEPT !.out = V("some", <<>>, <<f.out>>)]))
      [] ty.t \in {"unit", "unit_struct"} -> [d EXCEPT !.out = V(ty.t, <<>>, <<>>)]
      [] ty.t = "newtype_struct" ->
            Then(Deserialize(ty.kids[1], d), LAMBDA e :
            [e EXCEPT !.out = V("newtype_struct", <<>>, <<e.out>>)])
      [] ty.t \in {"tuple", "tuple_struct", "struct"} ->
            Then(Access_elements(ty.kids, <<>>, d), LAMBDA e :
            [e EXCEPT !.out = V(ty.t, <<>>, e.out)])
      [] ty.t = "enum" ->
            Then(deserialize_int(d, "u32"), LAMBDA e :
            IF ~FitsNat(e.out) \/ ToNat(e.out) >= Len(ty.kids)
            THEN [e EXCEPT !.res = "panic"]
            ELSE LET idx == e.out
                     var == ty.kids[ToNat(idx) + 1]
                 IN  CASE var.t = "unit_variant" ->
                            [e EXCEPT !.out = V("unit_variant", idx, <<>>)]
                       [] var.t = "newtype_variant" ->
                            Then(Deserialize(var.kids[1], e), LAMBDA f :
                            [f EXCEPT !.out = V("newtype_variant", idx, <<f.out>>)])
                       [] var.t \in {"tuple_variant", "struct_variant"} ->
                            Then(Access_elements(var.kids, <<>>, e), LAMBDA f :
                            [f EXCEPT !.out = V(var.t, idx, f.out)]))
      [] ty.t = "usize" ->
            Then(deserialize_usize(d), LAMBDA e : [e EXCEPT !.out = V("usize", e.out, <<>>)])
      [] ty.t = "any" -> deserialize_any(d)
      [] ty.t = "identifier" -> deserialize_identifier(d)
      [] ty.t = "ignored_any" -> deserialize_ignored_any(d)
      [] ty.t = "seq" ->
            Then(deserialize_len(d), LAMBDA e :
            Then(Access_seq(ty.kids[1], e.out, <<>>, e), LAMBDA f :
            [f EXCEPT !.out = V("seq", <<Len(f.out)>>, f.out)]))
      [] ty.t = "map" ->
            Then(deserialize_usize(d), LAMBDA e :
            Then(Access_map(ty.kids, e.out, <<>>, e), LAMBDA f :
            [f EXCEPT !.out = V("map", <<Len(f.out) \div 2>>, f.out)]))

Access_elements(types, got, d) ==
    IF types = <<>> THEN [d EXCEPT !.out = got]
    ELSE Then(Deserialize(Head(types), d), LAMBDA e :
         Access_elements(Tail(types), Append(got, e.out), e))

\* An Access is [de, len]: the Deserializer it borrows and the elements
\* (or entries) left.  A call on it returns [access, ret], ret being "Some",
\* "None" or "Err"; the element or the error is in access.de.

\* next_element_seed that leaves len as it is
next_element_seed_keep(a, ty) ==
    IF a.len # FromNat(0, 8)
    THEN LET e == Deserialize(ty, a.de)
         IN  [access |-> [de |-> e, len |-> a.len],
              ret |-> IF e.res = "Ok" THEN "Some" ELSE "Err"]
    ELSE [access |-> a, ret |-> "None"]

\* deserialize_tuple::Access::next_element_seed
next_element_seed(a, ty) ==
    IF a.len # FromNat(0, 8)
    THEN LET e == Deserialize(ty, a.de)
         IN  [access |-> [de |-> e, len |-> Sub1(a.len)],
              ret |-> IF e.res = "Ok" THEN "Some" ELSE "Err"]
    ELSE [access |-> a, ret |-> "None"]

\* deserialize_map::Access::next_key_seed
next_key_seed(a, ty) ==
    IF a.len # FromNat(0, 8)
    THEN LET e == Deserialize(ty, a.de)
         IN  [access |-> [de |-> e, len |-> Sub1(a.len)],
              ret |-> IF e.res = "Ok" THEN "Some" ELSE "Err"]
    ELSE [access |-> a, ret |-> "None"]

\* deserialize_map::Access::next_value_seed
next_value_seed(a, ty) ==
    LET e == Deserialize(ty, a.de)
    IN  [access |-> [a EXCEPT !.de = e], ret |-> IF e.res = "Ok" THEN "Some" ELSE "Err"]

\* Access::size_hint: Some(self.len)
size_hint(a) == a.len

\* deserialize_seq: the Access of deserialize_tuple(len, visitor), asked for
\* elements until next_element_seed returns None
Access_seq(ty, len, got, d) ==
    LET r == next_element_seed([de |-> d, len |-> len], ty)
    IN  IF r.ret = "None" THEN [d EXCEPT !.out = got]
        ELSE IF r.ret = "Err" THEN r.access.de
        ELSE Access_seq(ty, r.access.len, Append(got, r.access.de.out), r.access.de)

\* deserialize_map: its Access, asked for a key (next_key_seed) and its value
\* (next_value_seed) until next_key_seed returns None
Access_map(types, len, got, d) ==
    LET k == next_key_seed([de |-> d, len |-> len], types[1])
    IN  IF k.ret = "None" THEN [d EXCEPT !.out = got]
        ELSE IF k.ret = "Err" THEN k.access.de
        ELSE LET v == next_value_seed(k.access, types[2])
             IN  IF v.ret = "Err" THEN v.access.de
                 ELSE Access_map(types, v.access.len,
                                 got \o <<k.access.de.out, v.access.de.out>>, v.access.de)

\* deserialize(reader, options)
deserialize(ty, rkind, input, o) == Deserialize(ty, Deserializer_new(rkind, input, o))

---------------------------------------------------------------------------
(* Sample values, types and targets.                                       *)

\* 2^(8k-1) at width w.
Pow2At(k, w) == [i \in 1..w |-> IF i = k THEN 128 ELSE 0]

\* The boundary values of an unsigned w-byte integer: where its varint
\* changes form, and its extremes.
UnsignedBoundaries(w) ==
    {FromNat(0, w), FromNat(SINGLE_BYTE_MAX, w), AllOnes(w)}
    \cup {MaxOfBytes(k, w) : k \in {2, 4, 8} \cap 1..(w - 1)}

\* The boundary values of a signed w-byte integer: where the varint of its
\* zigzag code changes form, the extremes of each width up to its own, and
\* the complement of each of those.
SignedBoundaries(w) ==
    LET P == {FromNat(0, w), FromNat(125, w)}
             \cup {Pow2At(k, w) : k \in {2, 4, 8, 16} \cap 1..w}
    IN  P \cup {BitNot(a) : a \in P}

IntSamples(t) ==
    UNION {Around(a) : a \in IF t \in SignedTypes THEN SignedBoundaries(size_of(t))
                              ELSE UnsignedBoundaries(size_of(t))}

IntValues == UNION {{V(t, n, <<>>) : n \in IntSamples(t)} : t \in IntTypes}

ByteValues ==
    {V(b, <<>>, <<>>) : b \in {"true", "false"}}
    \cup {V(t, <<b>>, <<>>) : t \in {"u8", "i8"}, b \in {0, 1, 127, 128, 250, 251, 255}}

\* '$', DEL, U+0080, e acute, U+07FF, U+0800, the euro sign, the code points
\* around the surrogates, U+FFFF, U+10000 and the last code point
CharValues ==
    {V("char", <<c>>, <<>>) :
        c \in {36, 127, 128, 233, 2047, 2048, 8364, 55295, 57344, 65535, 65536, 1114111}}

\* "", "a", "tesT", "e acute", "a euro", and 251 times "a": the shortest
\* &str whose length takes the u16 form of a varint
StrValues ==
    {V("str", q, <<>>) :
        q \in {<<>>, <<97>>, <<116, 101, 115, 84>>, <<195, 169>>, <<97, 226, 130, 172>>,
               [i \in 1..(SINGLE_BYTE_MAX + 1) |-> 97]}}

\* b"", b"\0", b"test", and bytes that are no UTF-8
BytesValues ==
    {V("bytes", q, <<>>) : q \in {<<>>, <<0>>, <<116, 101, 115, 116>>, <<255, 192>>}}

U8(b) == V("u8", <<b>>, <<>>)
I8(b) == V("i8", <<b>>, <<>>)

\* the values of the tests: the structs, enums and tuples of tests/
SimpleEnum_A == V("unit_variant", FromNat(0, 4), <<>>)
ComplexEnum_A == V("newtype_variant", FromNat(0, 4), <<U8(1)>>)
ComplexEnum_B == V("tuple_variant", FromNat(1, 4), <<U8(1), I8(255)>>)
StructEnum_V == V("struct_variant", FromNat(0, 4), <<U8(7), V("u16", FromNat(300, 2), <<>>)>>)
SimpleStruct == V("struct", <<>>, <<U8(3)>>)
\* The tuple of simple_tuple: (1u16, 2u32, b"test", "tesT")
simple_tuple ==
    V("tuple", <<>>, <<V("u16", FromNat(1, 2), <<>>), V("u32", FromNat(2, 4), <<>>),
                       V("bytes", <<116, 101, 115, 116>>, <<>>),
                       V("str", <<116, 101, 115, 84>>, <<>>)>>)

\* the last variant of an enum of 252 unit variants: the first variant index
\* that takes the u16 form of a varint
WideEnum_Last == V("unit_variant", FromNat(SINGLE_BYTE_MAX + 1, 4), <<>>)

CompoundValues ==
    { V("none", <<>>, <<>>),
      V("some", <<>>, <<U8(6)>>),
      V("some", <<>>, <<V("none", <<>>, <<>>)>>),
      V("some", <<>>, <<V("u32", FromNat(70000, 4), <<>>)>>),
      V("unit", <<>>, <<>>),
      V("unit_struct", <<>>, <<>>),
      V("newtype_struct", <<>>, <<U8(5)>>),
      V("newtype_struct", <<>>, <<V("i64", AllOnes(8), <<>>)>>),
      simple_tuple,
      V("tuple_struct", <<>>, <<U8(1), I8(255)>>),
      SimpleStruct,
      V("struct", <<>>, <<SimpleStruct, SimpleEnum_A, ComplexEnum_B>>),
      V("struct", <<>>, <<U8(1), V("u16", FromNat(2, 2), <<>>), V("u32", FromNat(3, 4), <<>>),
                          V("u64", FromNat(4, 8), <<>>), V("u128", FromNat(5, 16), <<>>),
                          V("some", <<>>, <<U8(6)>>),
                          V("tuple", <<>>, <<U8(7), U8(8), U8(9)>>)>>),
      SimpleEnum_A, ComplexEnum_A, ComplexEnum_B, StructEnum_V, WideEnum_Last }

\* usizes that every target holds
UsizeValues ==
    {V("usize", ZeroExt(n, 8), <<>>) :
        n \in {FromNat(0, 4), FromNat(SINGLE_BYTE_MAX + 1, 4), FromNat(65536, 4), AllOnes(4)}}

\* sequences and maps that know their length, and ones that do not
SeqValues ==
    { V("seq", <<0>>, <<>>),
      V("seq", <<2>>, <<U8(1), U8(2)>>),
      V("seq", <<>>, <<U8(1), U8(2)>>),
      V("seq", <<>>, <<>>),
      V("map", <<0>>, <<>>),
      V("map", <<1>>, <<U8(1), V("u16", FromNat(300, 2), <<>>)>>),
      V("map", <<>>, <<U8(1), V("u16", FromNat(300, 2), <<>>)>>) }

Values == ByteValues \cup IntValues \cup CharValues \cup StrValues \cup BytesValues
          \cup CompoundValues \cup UsizeValues \cup SeqValues

\* A type is a value's shape without its scalars: [t, n, kids], n = <<>>;
\* the kids of an "enum" are its variants.
Ty(t, kids) == [t |-> t, n |-> <<>>, kids |-> kids]

\* SimpleEnum { A }, ComplexEnum { A(u8), B(u8, i8) }, StructEnum { V { a: u8, b: u16 } }
\* and an enum of 252 unit variants
Enums ==
    { Ty("enum", <<Ty("unit_variant", <<>>)>>),
      Ty("enum", <<Ty("newtype_variant", <<Ty("u8", <<>>)>>),
                   Ty("tuple_variant", <<Ty("u8", <<>>), Ty("i8", <<>>)>>)>>),
      Ty("enum", <<Ty("struct_variant", <<Ty("u8", <<>>), Ty("u16", <<>>)>>)>>),
      Ty("enum", [i \in 1..(SINGLE_BYTE_MAX + 2) |-> Ty("unit_variant", <<>>)]) }

\* The type a value is of (None is taken at Option<u8>).
RECURSIVE TypeOf(_)
TypeOf(v) ==
    CASE v.t \in {"true", "false"} -> Ty("bool", <<>>)
      [] v.t = "none" -> Ty("option", <<Ty("u8", <<>>)>>)
      [] v.t = "some" -> Ty("option", <<TypeOf(v.kids[1])>>)
      [] v.t = "seq" ->
            Ty("seq", <<IF v.kids = <<>> THEN Ty("u8", <<>>) ELSE TypeOf(v.kids[1])>>)
      [] v.t = "map" ->
            Ty("map", IF v.kids = <<>> THEN <<Ty("u8", <<>>), Ty("u8", <<>>)>>
                      ELSE <<TypeOf(v.kids[1]), TypeOf(v.kids[2])>>)
      [] v.t \in {"unit_variant", "newtype_variant", "tuple_variant", "struct_variant"} ->
            CHOOSE e \in Enums :
                /\ ToNat(v.n) < Len(e.kids)
                /\ e.kids[ToNat(v.n) + 1].t = v.t
                /\ Len(e.kids[ToNat(v.n) + 1].kids) = Len(v.kids)
      [] OTHER -> Ty(v.t, [i \in 1..Len(v.kids) |-> TypeOf(v.kids[i])])

\* The targets: [endian, usize], a 64-bit little-endian and a 32-bit big-endian one.
Targets == {[endian |-> "Little", usize |-> 8], [endian |-> "Big", usize |-> 4]}

AllOptions ==
    {InternalOptions(with_trailing(with_int_encoding(with_endian(o, e), i), t)) :
        o \in {with_no_limit(DefaultOptions)} \cup {with_limit(DefaultOptions, k) : k \in 0..MaxLimit},
        e \in Endians, i \in IntEncodings, t \in Trailings}

Caps == {0, MaxCap, LargeCap}

---------------------------------------------------------------------------
(* The codec session: a value and Options are chosen; serialize_size       *)
(* measures the value, serialize writes it into a fresh BufferWriter over  *)
(* `buffer`, and deserialize reads the written bytes back with the same    *)
(* Options.  `call` keeps what each call returned.                         *)

Init ==
    /\ \E cap \in Caps : buffer = [i \in 1..cap |-> 0]
    /\ index = 0
    /\ options \in AllOptions
    /\ native \in Targets
    /\ value \in Values
    /\ target = TypeOf(value)
    /\ reader = <<>>
    /\ call = [op |-> "new"]

\* serialize_size(&value, options)
SerializeSize ==
    /\ call.op = "new"
    /\ LET c == serialize_size(value, options)
       IN  call' = [op |-> "serialize_size", res |-> c.res, size |-> c.total]
    /\ UNCHANGED <<buffer, index, options, native, reader, target, value>>

\* serialize(&value, writer, options), writer a `&mut BufferWriter` or a `BufferWriter`
SerializeValue(kind) ==
    /\ call.op = "serialize_size"
    /\ LET s == serialize(value, kind, BufferWriter_new(buffer), options)
       IN  /\ buffer' = s.w.buffer
           /\ index' = s.w.index
           /\ call' = [op |-> "serialize", res |-> s.res, size |-> call.size,
                       kind |-> kind, meter |-> s.options.limit]
    /\ UNCHANGED <<options, native, reader, target, value>>

\* deserialize::<T>(written_buffer, options), the reader a `&[u8]` or a CoreReadBytes
DeserializeWritten(rkind) ==
    /\ call.op = "serialize"
    /\ call.res = "Ok"
    /\ LET input == written_buffer([buffer |-> buffer, index |-> index])
           d == deserialize(target, rkind, input, options)
       IN  /\ reader' = d.reader
           /\ call' = [op |-> "deserialize", res |-> d.res, out |-> d.out,
                       rkind |-> rkind, input |-> input, meter |-> d.options.limit,
                       trace |-> d.trace, human |-> is_human_readable(d)]
    /\ UNCHANGED <<buffer, index, options, native, target, value>>

Next ==
    \/ SerializeSize
    \/ \E kind \in WriterKinds : SerializeValue(kind)
    \/ \E rkind \in ReaderKinds : DeserializeWritten(rkind)

Spec == Init /\ [][Next]_vars

---------------------------------------------------------------------------
(* The writer alone: single writes and write_all on a BufferWriter of a    *)
(* small capacity, through each CoreWrite implementation.  A panic ends    *)
(* the run.                                                                *)

WriteBytes == {1, 255}

InitWriter ==
    /\ \E cap \in 0..MaxCap : buffer = [i \in 1..cap |-> 0]
    /\ index = 0
    /\ options = InternalOptions(DefaultOptions)
    /\ native \in Targets
    /\ reader = <<>>
    /\ value = V("unit", <<>>, <<>>)
    /\ target = TypeOf(value)
    /\ call \in {[op |-> "new", kind |-> kind, res |-> "Ok", log |-> <<>>] : kind \in WriterKinds}

\* writer.write(val)
WriteByte(val) ==
    /\ call.res # "panic"
    /\ LET r == write(call.kind, [buffer |-> buffer, index |-> index], val)
       IN  /\ buffer' = r.w.buffer
           /\ index' = r.w.index
           /\ call' = [op |-> "write", kind |-> call.kind, res |-> r.res,
                       before |-> [buffer |-> buffer, index |-> index],
                       log |-> IF r.res = "Ok" THEN Append(call.log, val) ELSE call.log]
    /\ UNCHANGED <<options, native, reader, target, value>>

\* writer.write_all(bytes)
WriteAll(bytes) ==
    /\ call.res # "panic"
    /\ LET r == write_all(call.kind, [buffer |-> buffer, index |-> index], bytes)
       IN  /\ buffer' = r.w.buffer
           /\ index' = r.w.index
           /\ call' = [op |-> "write_all", kind |-> call.kind, res |-> r.res,
                       before |-> [buffer |-> buffer, index |-> index],
                       log |-> call.log \o write_all_done(call.kind,
                                   [buffer |-> buffer, index |-> index], bytes)]
    /\ UNCHANGED <<options, native, reader, target, value>>

NextWriter ==
    \/ \E val \in WriteBytes : WriteByte(val)
    \/ \E a \in WriteBytes, b \in WriteBytes : WriteAll(<<a, b>>)

SpecWriter == InitWriter /\ [][NextWriter]_vars

---------------------------------------------------------------------------
(* Decoding a given input: a type, Options and some bytes are chosen, and  *)
(* deserialize reads a value of the type from the bytes.                   *)

\* Largest length of the inputs built from DecodeBytes.
MaxInput == 2

DecodeBytes == {0, 1, 2, U16_BYTE, 255}

RECURSIVE SeqsUpTo(_, _)
SeqsUpTo(S, n) ==
    IF n = 0 THEN {<<>>}
    ELSE LET R == SeqsUpTo(S, n - 1)
         IN  R \cup {Append(q, b) : q \in {r \in R : Len(r) = n - 1}, b \in S}

\* Longer inputs: a &str of one byte with a byte to spare, a length prefix
\* beyond the input, the varint of 300, a two-byte char, a char cut short,
\* a varint of 2^32 and a u128 varint prefix.
CraftedInputs ==
    { <<1, 97, 0>>, <<3, 97, 98>>, <<U16_BYTE, 44, 1>>, <<195, 169>>, <<226, 130>>,
      <<U64_BYTE, 0, 0, 0, 0, 1, 0, 0, 0>>, <<U128_BYTE, 1, 0>>, <<U32_BYTE, 1, 0, 0>> }

\* Integers at the edges of the narrowing casts: the varints of 2^16 - 2,
\* 2^16 - 1, 2^16 and 2^32 - 1 (2^32 is above), and the fixint u64 2^32.
CastInputs ==
    { <<U16_BYTE, 254, 255>>, <<U16_BYTE, 255, 255>>, <<U32_BYTE, 0, 0, 1, 0>>,
      <<U64_BYTE, 255, 255, 255, 255, 0, 0, 0, 0>>, <<0, 0, 0, 0, 1, 0, 0, 0>> }

\* The leading bytes at the edges of the rows of UTF8_CHAR_WIDTH, alone,
\* with one continuation byte, and with three and a byte to spare.
CharLeaders == {127, 128, 191, 192, 193, 194, 223, 224, 239, 240, 244, 245, 247, 248}
CharInputs == {<<b>> \o t : b \in CharLeaders, t \in {<<>>, <<128>>, <<128, 128, 128, 7>>}}

\* The varints of u64::MAX and u64::MAX - 1: the zigzag codes of i64::MIN
\* and i64::MAX.
SignedInputs == {<<U64_BYTE>> \o AllOnes(8), <<U64_BYTE, 254>> \o AllOnes(7)}

\* The u128 form of a varint: 254 and 16 bytes.
U128Inputs == {<<U128_BYTE>> \o [i \in 1..16 |-> i]}

\* Varints in a longer form than their value needs: 250 and 0 as a u16,
\* 1 and 2^16 - 1 as a u32, 1 and 2^32 - 1 as a u64 (in CastInputs too).
NonCanonicalInputs ==
    { <<U16_BYTE, 250, 0>>, <<U16_BYTE, 0, 0>>, <<U32_BYTE, 1, 0, 0, 0>>,
      <<U32_BYTE, 255, 255, 0, 0>>, <<U64_BYTE, 1, 0, 0, 0, 0, 0, 0, 0>>,
      <<U64_BYTE, 255, 255, 255, 255, 0, 0, 0, 0>> }

Inputs == SeqsUpTo(DecodeBytes, MaxInput) \cup CraftedInputs \cup CastInputs \cup CharInputs
          \cup SignedInputs \cup U128Inputs \cup NonCanonicalInputs

\* Types whose Deserialize asks for deserialize_any, deserialize_identifier
\* or deserialize_ignored_any (serde::de::IgnoredAny).
SelfDescribing == {"any", "identifier", "ignored_any"}

DecodeTypes ==
    {Ty(t, <<>>) : t \in {"bool", "u8", "char", "str", "bytes"} \cup IntTypes}
    \cup {Ty("option", <<Ty("u8", <<>>)>>), Ty("tuple", <<Ty("u8", <<>>), Ty("u16", <<>>)>>)}
    \cup {Ty("option", <<Ty("u16", <<>>)>>)}
    \cup {Ty("usize", <<>>), Ty("seq", <<Ty("u8", <<>>)>>),
          Ty("map", <<Ty("u8", <<>>), Ty("u8", <<>>)>>)}
    \cup {Ty(t, <<>>) : t \in SelfDescribing}
    \cup {e \in Enums : Len(e.kids) = 2}

InitDecode ==
    /\ buffer = [i \in 1..LargeCap |-> 0]
    /\ index = 0
    /\ options \in AllOptions
    /\ native \in Targets
    /\ reader \in Inputs
    /\ target \in DecodeTypes
    /\ value = V("unit", <<>>, <<>>)
    /\ call = [op |-> "new"]

\* deserialize::<T>(reader, options), the reader a `&[u8]` or a CoreReadBytes
DeserializeInput(rkind) ==
    /\ call.op = "new"
    /\ LET d == deserialize(target, rkind, reader, options)
       IN  /\ reader' = d.reader
           /\ call' = [op |-> "deserialize", res |-> d.res, out |-> d.out,
                       rkind |-> rkind, input |-> reader, meter |-> d.options.limit,
                       trace |-> d.trace, human |-> is_human_readable(d)]
    /\ UNCHANGED <<buffer, index, options, native, target, value>>

\* serialize(&decoded, &mut writer, options) of the value a deserialize returned
SerializeDecoded ==
    /\ call.op = "deserialize"
    /\ call.res = "Ok"
    /\ LET s == serialize(call.out, "ref", BufferWriter_new(buffer), options)
       IN  /\ buffer' = s.w.buffer
           /\ index' = s.w.index
           /\ value' = call.out
           /\ call' = [op |-> "serialize", res |-> s.res, rkind |-> call.rkind,
                       input |-> call.input]
    /\ UNCHANGED <<options, native, reader, target>>

NextDecode ==
    \/ \E rkind \in ReaderKinds : DeserializeInput(rkind)
    \/ SerializeDecoded

SpecDecode == InitDecode /\ [][NextDecode]_vars

---------------------------------------------------------------------------
(* The integer encodings alone: an integer is chosen; the zigzag code is   *)
(* applied to it and undone, and the integer is serialized.                *)

InitInt ==
    /\ buffer = [i \in 1..LargeCap |-> 0]
    /\ index = 0
    /\ options \in AllOptions
    /\ native \in Targets
    /\ reader = <<>>
    /\ value \in IntValues
    /\ target = TypeOf(value)
    /\ call = [op |-> "new"]

\* The argument of a zigzag call: the chosen integer as the `as i64` /
\* `as u64` casts of the callers widen it, or the output of the call before.
ZigzagArg ==
    IF call.op # "new" THEN call.out
    ELSE IF size_of(value.t) = 16 THEN value.n
    ELSE IF value.t \in SignedTypes THEN SignExt(value.n, 8) ELSE ZeroExt(value.n, 8)

\* VarintEncoding::zigzag_encode(n) / zigzag128_encode(n)
ZigzagEncode ==
    /\ call.op \in {"new", "zigzag_decode"}
    /\ call.op = "new" => value.t \in SignedTypes
    /\ LET n == ZigzagArg
       IN  call' = [op |-> "zigzag_encode", arg |-> n,
                    out |-> IF Len(n) = 16 THEN zigzag128_encode(n) ELSE zigzag_encode(n),
                    overflow |-> zigzag_encode_overflows(n),
                    first |-> IF call.op = "new" THEN n ELSE call.arg,
                    steps |-> IF call.op = "new" THEN 1 ELSE 2]
    /\ call.op # "new" => call.steps = 1
    /\ UNCHANGED <<buffer, index, options, native, reader, target, value>>

\* VarintEncoding::zigzag_decode(n) / zigzag128_decode(n)
ZigzagDecode ==
    /\ call.op \in {"new", "zigzag_encode"}
    /\ call.op = "new" => value.t \in UnsignedTypes
    /\ LET n == ZigzagArg
       IN  call' = [op |-> "zigzag_decode", arg |-> n,
                    out |-> IF Len(n) = 16 THEN zigzag128_decode(n) ELSE zigzag_decode(n),
                    overflow |-> FALSE,
                    first |-> IF call.op = "new" THEN n ELSE call.arg,
                    steps |-> IF call.op = "new" THEN 1 ELSE 2]
    /\ call.op # "new" => call.steps = 1
    /\ UNCHANGED <<buffer, index, options, native, reader, target, value>>

\* serialize(&value, &mut writer, options) of the integer
SerializeInt ==
    /\ call.op = "new"
    /\ LET s == serialize(value, "ref", BufferWriter_new(buffer), options)
       IN  /\ buffer' = s.w.buffer
           /\ index' = s.w.index
           /\ call' = [op |-> "serialize", res |-> s.res]
    /\ UNCHANGED <<options, native, reader, target, value>>

NextInt == ZigzagEncode \/ ZigzagDecode \/ SerializeInt

SpecInt == InitInt /\ [][NextInt]_vars

---------------------------------------------------------------------------
(* The Options builders alone: starting from DefaultOptions::new(), builder *)
(* setters are called one on the result of the other; `options` is the     *)
(* chain of WithOther* structs built so far and `call` keeps the setter     *)
(* called last, its argument and what the Options resolved to before it.    *)

\* Largest number of setters called in a row.
MaxSetters == 3

InitOptions ==
    /\ buffer = <<>>
    /\ index = 0
    /\ options = DefaultOptions
    /\ native \in Targets
    /\ reader = <<>>
    /\ value = V("unit", <<>>, <<>>)
    /\ target = TypeOf(value)
    /\ call = [op |-> "new", n |-> 0]

\* what every setter leaves alone
Setter ==
    /\ call.n < MaxSetters
    /\ UNCHANGED <<buffer, index, native, reader, target, value>>

\* options.with_no_limit()
WithNoLimit ==
    /\ Setter
    /\ options' = with_no_limit(options)
    /\ call' = [op |-> "with_limit", arg |-> Infinite, n |-> call.n + 1,
                before |-> InternalOptions(options)]

\* options.with_limit(k)
WithLimit(k) ==
    /\ Setter
    /\ options' = with_limit(options, k)
    /\ call' = [op |-> "with_limit", arg |-> Bounded(k), n |-> call.n + 1,
                before |-> InternalOptions(options)]

\* options.with_little_endian() / with_big_endian() / with_native_endian()
WithEndian(e) ==
    /\ Setter
    /\ options' = with_endian(options, e)
    /\ call' = [op |-> "with_endian", arg |-> e, n |-> call.n + 1,
                before |-> InternalOptions(options)]

\* options.with_varint_encoding() / with_fixint_encoding()
WithIntEncoding(i) ==
    /\ Setter
    /\ options' = with_int_encoding(options, i)
    /\ call' = [op |-> "with_int_encoding", arg |-> i, n |-> call.n + 1,
                before |-> InternalOptions(options)]

\* options.reject_trailing_bytes() / allow_trailing_bytes()
WithTrailing(t) ==
    /\ Setter
    /\ options' = with_trailing(options, t)
    /\ call' = [op |-> "with_trailing", arg |-> t, n |-> call.n + 1,
                before |-> InternalOptions(options)]

NextOptions ==
    \/ WithNoLimit
    \/ \E k \in 0..MaxLimit : WithLimit(k)
    \/ \E e \in Endians : WithEndian(e)
    \/ \E i \in IntEncodings : WithIntEncoding(i)
    \/ \E t \in Trailings : WithTrailing(t)

SpecOptions == InitOptions /\ [][NextOptions]_vars

---------------------------------------------------------------------------
(* The properties.                                                         *)

\* The bytes a call consumed from its reader.
Consumed == Len(call.input) - Len(reader)

\* The writer the session serialized into.
Writer == [buffer |-> buffer, index |-> index]

\* C1: Round trip.  Deserializing the bytes a successful serialize wrote,
\* with the same Options, succeeds and returns a value equal to the one
\* serialized, for every sample value and every Options.
RoundTrip ==
    call.op = "deserialize" => call.res = "Ok" /\ call.out = value

\* The round trip where the Options' byte limit, if any, is not below the
\* number of bytes written.
RoundTripWithinLimit ==
    (/\ call.op = "deserialize"
     /\ options.limit.bounded => options.limit.k >= Len(call.input))
    => call.res = "Ok" /\ call.out = value

\* C2: Size agreement.  After a successful serialize, written_len() is
\* exactly what serialize_size returned for the same value and Options.
SizeAgreement ==
    (call.op = "serialize" /\ call.res = "Ok") => written_len(Writer) = call.size

\* A u128 beyond 2^64 - 1 was measured and written under varint: 17 bytes.
SizeAgreementWitness ==
    /\ call.op = "serialize"
    /\ call.res = "Ok"
    /\ value.t = "u128"
    /\ options.int = "Varint"
    /\ call.size = 17
    /\ written_len(Writer) = 17

\* C3: Limit enforcement on serialization.  With with_limit(k), a serialize
\* of a value whose serialized size exceeds k returns an error and leaves
\* the writer empty, and the meter is charged for every byte written.
SerializeLimitEnforced ==
    (call.op = "serialize" /\ options.limit.bounded) =>
        /\ call.size > options.limit.k => (call.res # "Ok" /\ written_len(Writer) = 0)
        /\ call.res # "panic" => call.meter.k + written_len(Writer) = options.limit.k

\* C4: Limit enforcement on deserialization.  With with_limit(k), a
\* deserialize that succeeds has consumed at most k bytes of its reader.
DeserializeLimitEnforced ==
    (call.op = "deserialize" /\ options.limit.bounded /\ call.res = "Ok")
    => Consumed <= options.limit.k

\* C5: Trailing policy.  With RejectTrailing, a top-level deserialize that
\* leaves bytes in its reader fails; with AllowTrailing, one that decoded
\* its value succeeds whatever is left.
TrailingPolicy ==
    (call.op = "deserialize" /\ options.trailing = "Reject" /\ reader # <<>>)
    => call.res # "Ok"

\* C6: BufferWriter overflow.  A write or write_all of some bytes on a
\* writer whose capacity is used up returns BufferTooSmall and leaves
\* written_len and the buffer as they were, for each CoreWrite
\* implementation.
WriterOverflowIsError ==
    (/\ call.op \in {"write", "write_all"}
     /\ call.before.index = Len(call.before.buffer))
    => /\ call.res = "BufferTooSmall"
       /\ written_len(Writer) = call.before.index
       /\ buffer = call.before.buffer

\* C7: Reads past the end.  Every request of the reader for more bytes than
\* it has left returns the reader's end-of-input error and takes nothing;
\* none panics.
ShortReadIsError ==
    call.op = "deserialize" =>
        \A i \in 1..Len(call.trace) :
            LET e == call.trace[i]
            IN  (e.ev = "read" /\ (~FitsNat(e.n) \/ ToNat(e.n) > e.left))
                => /\ e.res \in {"Read(EndOfInput)", "Read(EndOfSlice)"}
                   /\ e.took = 0

\* The types whose decoding starts with a varint under VarintEncoding: the
\* integers wider than a byte, the length of a &str, &[u8], sequence or map,
\* and the discriminant of an enum.
VarintFirst == IntTypes \cup {"str", "bytes", "enum", "usize", "seq", "map"}

\* C8, as claimed: under VarintEncoding, decoding a varint from an input
\* whose first byte is 255 fails with ExtensionPoint.
ExtensionPointAlways ==
    (/\ call.op = "deserialize"
     /\ options.int = "Varint"
     /\ target.t \in VarintFirst
     /\ call.input # <<>>
     /\ call.input[1] = 255)
    => call.res = "ExtensionPoint"

\* C8, amended: under VarintEncoding, decoding a varint from an input whose
\* first byte is 255 fails with ExtensionPoint when the byte limit admits
\* that byte, and with LimitError when the limit is 0.
ExtensionPointRejected ==
    (/\ call.op = "deserialize"
     /\ options.int = "Varint"
     /\ target.t \in VarintFirst
     /\ call.input # <<>>
     /\ call.input[1] = 255)
    => IF options.limit.bounded /\ options.limit.k = 0
       THEN call.res = "LimitError"
       ELSE call.res = "ExtensionPoint"

\* The length of a &str was decoded from <<255, 0>> under a limit of one
\* byte: ExtensionPoint, with the second byte left in the reader.
ExtensionPointWitness ==
    /\ call.op = "deserialize"
    /\ options.int = "Varint"
    /\ options.limit = Bounded(1)
    /\ target.t = "str"
    /\ call.input = <<255, 0>>
    /\ call.res = "ExtensionPoint"
    /\ reader = <<0>>

\* The unsigned value a varint encodes, at 128 bits: the integer itself, or
\* the zigzag code of a signed one.
Encoded(v) ==
    IF v.t \in UnsignedTypes THEN ZeroExt(v.n, 16)
    ELSE IF v.t = "i128" THEN zigzag128_encode(v.n)
    ELSE ZeroExt(zigzag_encode(SignExt(v.n, 8)), 16)

\* q holds the low bytes of u, in one byte order or the other.
HoldsLowBytes(q, u) == q = Trunc(u, Len(q)) \/ q = Reverse(Trunc(u, Len(q)))

\* C9: Varint canonical output.  Under VarintEncoding the bytes written for
\* an integer u (a signed one after zigzag) are the single byte u exactly
\* when u <= 250, 251 and a u16 exactly when 250 < u <= 0xFFFF, 252 and a
\* u32 exactly when 0xFFFF < u <= 0xFFFF_FFFF, 253 and a u64 exactly when
\* 0xFFFF_FFFF < u <= 2^64 - 1, and 254 and a u128 exactly when u is larger.
VarintCanonical ==
    (call.op = "serialize" /\ call.res = "Ok" /\ options.int = "Varint") =>
        LET u == Encoded(value)
            out == written_buffer(Writer)
            form == IF ULeq(u, FromNat(250, 16)) THEN 0
                    ELSE IF ULeq(u, MaxOfBytes(2, 16)) THEN 2
                    ELSE IF ULeq(u, MaxOfBytes(4, 16)) THEN 4
                    ELSE IF ULeq(u, MaxOfBytes(8, 16)) THEN 8
                    ELSE 16
        IN  /\ Len(out) = 1 + form
            /\ form = 0 => out[1] = u[1]
            /\ form = 2 => out[1] = 251
            /\ form = 4 => out[1] = 252
            /\ form = 8 => out[1] = 253
            /\ form = 16 => out[1] = 254
            /\ form > 0 => HoldsLowBytes(Tail(out), u)

\* The u64 0x1_0000, the first value past the u16 form, was written as 252
\* and four bytes.
VarintCanonicalWitness ==
    /\ call.op = "serialize"
    /\ call.res = "Ok"
    /\ options.int = "Varint"
    /\ value = V("u64", FromNat(65536, 8), <<>>)
    /\ written_len(Writer) = 5
    /\ buffer[1] = 252

\* C10: Zigzag is a bijection on 64 bits.  zigzag_decode undoes
\* zigzag_encode on every i64, zigzag_encode undoes zigzag_decode on every
\* u64, and no step of either overflows.
ZigzagBijection ==
    (call.op \in {"zigzag_encode", "zigzag_decode"} /\ Len(call.arg) = 8) =>
        /\ ~call.overflow
        /\ call.steps = 2 => call.out = call.first

\* i64::MIN was encoded to u64::MAX and decoded back.
ZigzagBijectionWitness ==
    /\ call.op = "zigzag_decode"
    /\ call.steps = 2
    /\ call.first = SignBit(8)
    /\ call.arg = AllOnes(8)
    /\ call.out = SignBit(8)

\* The Deserializer a deserialize call started from.
Started == Deserializer_new(call.rkind, call.input, options)

\* The InvalidCast error of a narrowing to the type t.
InvalidCast(t) ==
    CASE t = "u16" -> "InvalidCast(u64,u16)"
      [] t = "u32" -> "InvalidCast(u64,u32)"
      [] t = "i16" -> "InvalidCast(i64,i16)"
      [] t = "i32" -> "InvalidCast(i64,i32)"
      [] t = "usize" -> "InvalidCast(u64,usize)"

\* The narrowing of the integers: under VarintEncoding, when the varint of
\* a u16, u32, i16 or i32 was decoded to a 64-bit value (after zigzag for the
\* signed ones), the call fails with InvalidCast if that value does not
\* survive the narrowing to the target and back, and returns exactly the
\* value otherwise.
NarrowingOfIntegers ==
    (/\ call.op = "deserialize"
     /\ options.int = "Varint"
     /\ target.t \in {"u16", "u32", "i16", "i32"}
     /\ deserialize_varint(Started).res = "Ok")
    => LET w == size_of(target.t)
           signed == target.t \in SignedTypes
           u == deserialize_varint(Started).out
           n == IF signed THEN zigzag_decode(u) ELSE u
           back == IF signed THEN SignExt(Trunc(n, w), 8) ELSE ZeroExt(Trunc(n, w), 8)
       IN  IF back = n
           THEN call.res = "Ok" /\ call.out = V(target.t, Trunc(n, w), <<>>)
           ELSE call.res = InvalidCast(target.t)

\* The narrowing of the length of the shapes T: when the u64 of the length
\* was decoded, the call fails with InvalidCast if the length does not fit
\* the target's usize; one that fits is the length then asked of the reader
\* (&str, &[u8]) or the number of elements of a call that succeeds.
NarrowingOfLength(T) ==
    (/\ call.op = "deserialize"
     /\ target.t \in T
     /\ deserialize_int(Started, "u64").res = "Ok")
    => LET r == deserialize_int(Started, "u64")
       IN  IF ZeroExt(Trunc(r.out, usize_size), 8) # r.out
           THEN call.res = InvalidCast("usize")
           ELSE IF target.t \in {"str", "bytes"}
           THEN /\ Len(call.trace) > Len(r.trace)
                /\ call.trace[Len(r.trace) + 1].ev = "read"
                /\ call.trace[Len(r.trace) + 1].n = r.out
           ELSE call.res = "Ok" => FromNat(call.out.n[1], 8) = r.out

\* C11: Narrowing on decode.  Under VarintEncoding a u16, u32, i16 or i32
\* whose decoded 64-bit value is out of the target's range fails with
\* InvalidCast and one in range is returned exactly; a decoded length (of a
\* &str, a &[u8], a sequence or a map) above the target's usize::MAX fails
\* with InvalidCast.
NarrowingCast ==
    NarrowingOfIntegers /\ NarrowingOfLength({"str", "bytes", "seq", "map"})

\* The same without the maps: the lengths that deserialize_len decodes.
NarrowingCastOfLen ==
    NarrowingOfIntegers /\ NarrowingOfLength({"str", "bytes", "seq"})

\* The byte limit of the call's Options admits n bytes.
Admits(n) == options.limit.bounded => options.limit.k >= n

\* C12: bool is exactly one byte.  serialize writes the one byte 0 for false
\* and 1 for true.  A deserialize of a bool that gets its byte (the input is
\* not empty and the byte limit admits one byte) consumes exactly that byte
\* and returns false for 0, true for 1 and InvalidBoolValue(b) for every
\* other byte b; one that does not get it fails having consumed nothing.
BoolOneByte ==
    /\ (call.op = "serialize" /\ value.t \in {"true", "false"})
       => /\ call.res = "Ok"
          /\ written_buffer(Writer) = <<IF value.t = "true" THEN 1 ELSE 0>>
    /\ (call.op = "deserialize" /\ target.t = "bool")
       => IF call.input # <<>> /\ Admits(1)
          THEN LET b == call.input[1]
               IN  /\ Consumed = 1
                   /\ b = 0 => call.res = "Ok" /\ call.out = V("false", <<>>, <<>>)
                   /\ b = 1 => call.res = "Ok" /\ call.out = V("true", <<>>, <<>>)
                   /\ b \notin {0, 1} => call.res = "InvalidBoolValue" /\ call.out = b
          ELSE call.res # "Ok" /\ Consumed = 0

\* A bool was read from <<2, 0>>: InvalidBoolValue(2), one byte consumed.
BoolOneByteWitness ==
    /\ call.op = "deserialize"
    /\ target.t = "bool"
    /\ call.input = <<2, 0>>
    /\ call.res = "InvalidBoolValue"
    /\ call.out = 2
    /\ reader = <<0>>

\* A writer over a cleared buffer of the session's capacity.
FreshWriter == BufferWriter_new([i \in 1..Len(buffer) |-> 0])

\* C13: Option framing.  None is written as the one byte 0, and Some(x) as
\* the byte 1 followed by the bytes serialize writes for x.  A deserialize
\* of an Option that gets a tag byte returns None for 0 having consumed one
\* byte; for 1 it does what a deserialize of the payload type does on the
\* rest of the input, wrapping its value in Some; for every other byte b it
\* fails with InvalidOptionValue(b) having consumed one byte.
OptionFraming ==
    /\ (call.op = "serialize" /\ value.t = "none")
       => call.res = "Ok" /\ written_buffer(Writer) = <<0>>
    /\ (call.op = "serialize" /\ value.t = "some")
       => LET x == serialize(value.kids[1], "ref", FreshWriter, options)
          IN  /\ call.res = x.res
              /\ written_buffer(Writer) = <<1>> \o written_buffer(x.w)
    /\ (call.op = "deserialize" /\ target.t = "option" /\ call.input # <<>>)
       => LET b == call.input[1]
              x == deserialize(target.kids[1], call.rkind, Tail(call.input), options)
          IN  /\ b = 0 => /\ call.res = "Ok"
                          /\ call.out = V("none", <<>>, <<>>)
                          /\ Consumed = 1
              /\ b = 1 => /\ call.res = x.res
                          /\ reader = x.reader
                          /\ x.res = "Ok" => call.out = V("some", <<>>, <<x.out>>)
              /\ b \notin {0, 1} => /\ call.res = "InvalidOptionValue"
                                    /\ call.out = b
                                    /\ Consumed = 1

\* An Option<u8> was read from <<255, 1>>: InvalidOptionValue(255), and the
\* second byte is left.
OptionFramingWitness ==
    /\ call.op = "deserialize"
    /\ target = Ty("option", <<Ty("u8", <<>>)>>)
    /\ call.input = <<255, 1>>
    /\ call.res = "InvalidOptionValue"
    /\ call.out = 255
    /\ reader = <<1>>

\* C14: A sequence or map without a known length.  serialize of a sequence
\* or map whose length is None returns the error SequenceMustHaveLength and
\* writes nothing, and serialize_size of it returns the same error.
MissingLengthIsError ==
    (value.t \in {"seq", "map"} /\ value.n = <<>>) =>
        /\ call.op = "serialize_size" => call.res = "SequenceMustHaveLength"
        /\ call.op = "serialize" =>
                call.res = "SequenceMustHaveLength" /\ written_len(Writer) = 0

\* C15: The guard of a format that does not describe itself.  A deserialize
\* that asks for deserialize_any, deserialize_identifier or
\* deserialize_ignored_any panics, whatever the reader holds, without a
\* request of the reader or a charge of the meter; is_human_readable() is
\* false.
SelfDescribingRejected ==
    call.op = "deserialize" =>
        /\ ~call.human
        /\ target.t \in SelfDescribing =>
                /\ call.res = "panic"
                /\ reader = call.input
                /\ call.trace = <<>>
                /\ call.meter = options.limit

\* deserialize_ignored_any was asked on the input <<1, 97, 0>> under a
\* limit of one byte: a panic, with the three bytes left.
SelfDescribingRejectedWitness ==
    /\ call.op = "deserialize"
    /\ target.t = "ignored_any"
    /\ options.limit = Bounded(1)
    /\ call.input = <<1, 97, 0>>
    /\ call.res = "panic"
    /\ reader = <<1, 97, 0>>

\* C16: Options composition.  DefaultOptions::new() is {Infinite, Little,
\* Varint, Reject}, and after any number of setters in any order the
\* Options are what they were before the last setter, but for the
\* dimension of that setter, which is the setter's argument.
OptionsComposition ==
    LET now == InternalOptions(options)
    IN  /\ call.op = "new" =>
                now = [limit |-> Infinite, endian |-> "Little", int |-> "Varint",
                       trailing |-> "Reject"]
        /\ call.op = "with_limit" => now = [call.before EXCEPT !.limit = call.arg]
        /\ call.op = "with_endian" => now = [call.before EXCEPT !.endian = call.arg]
        /\ call.op = "with_int_encoding" => now = [call.before EXCEPT !.int = call.arg]
        /\ call.op = "with_trailing" => now = [call.before EXCEPT !.trailing = call.arg]

\* with_limit(2), then with_big_endian(), then with_fixint_encoding(): the
\* limit of 2 bytes and the byte order are still there.
OptionsCompositionWitness ==
    /\ call.op = "with_int_encoding"
    /\ call.n = 3
    /\ call.before = [limit |-> Bounded(2), endian |-> "Big", int |-> "Varint",
                      trailing |-> "Reject"]
    /\ InternalOptions(options) = [limit |-> Bounded(2), endian |-> "Big", int |-> "Fixint",
                                   trailing |-> "Reject"]

\* p is a prefix of q.
IsPrefix(p, q) == Len(p) <= Len(q) /\ SubSeq(q, 1, Len(p)) = p

VariantShapes == {"unit_variant", "newtype_variant", "tuple_variant", "struct_variant"}

\* The shapes that start with a length or are one, with the length known.
Prefixed(v) ==
    \/ v.t \in {"str", "bytes", "usize"} \cup VariantShapes
    \/ v.t \in {"seq", "map"} /\ v.n # <<>>

\* The integer a value starts with: its length as a u64, the usize itself
\* as a u64, or its variant index as a u32.
HeadInt(v) ==
    CASE v.t \in {"str", "bytes"} -> V("u64", FromNat(Len(v.n), 8), <<>>)
      [] v.t \in {"seq", "map"} -> V("u64", FromNat(v.n[1], 8), <<>>)
      [] v.t = "usize" -> V("u64", v.n, <<>>)
      [] v.t \in VariantShapes -> V("u32", v.n, <<>>)

\* The size of what follows that integer.
BodySize(v) ==
    IF v.t \in {"str", "bytes"} THEN Len(v.n)
    ELSE serialize_size(V("tuple", <<>>, v.kids), options).total

\* C17: Lengths and discriminants.  The length of a &str, &[u8], sequence
\* or map, and a usize, is the u64 of the configured integer encoding (8
\* bytes under fixint, 1 to 9 under varint), and the discriminant of an
\* enum variant is its u32 (4 bytes under fixint, 1 to 5 under varint):
\* serialize_size counts the bytes of that integer and of what follows,
\* serialize writes the bytes of that integer first, and deserialize starts
\* with the decoding of that integer and gets it back from those bytes.
LengthEncodingRule ==
    Prefixed(value) =>
        LET h == HeadInt(value)
            P == written_buffer(
                    serialize(h, "ref", BufferWriter_new([i \in 1..LargeCap |-> 0]),
                              options).w)
            out == written_buffer(Writer)
        IN  /\ IF options.int = "Fixint" THEN Len(P) = size_of(h.t)
               ELSE Len(P) \in 1..(size_of(h.t) + 1)
            /\ call.op = "serialize_size" =>
                    call.res = "Ok" /\ call.size = Len(P) + BodySize(value)
            /\ call.op = "serialize" =>
                    /\ IsPrefix(P, out) \/ IsPrefix(out, P)
                    /\ call.res = "Ok" => IsPrefix(P, out)
            /\ call.op = "deserialize" =>
                    LET r == deserialize_int(Started, h.t)
                    IN  /\ IsPrefix(r.trace, call.trace)
                        /\ r.res = "Ok" =>
                                /\ r.out = h.n
                                /\ Len(call.input) - Len(r.reader) = Len(P)

\* The 252nd variant of an enum was written under fixint, big-endian: the
\* four bytes of the u32 251.
LengthEncodingRuleWitness ==
    /\ call.op = "serialize"
    /\ call.res = "Ok"
    /\ value = WideEnum_Last
    /\ options.int = "Fixint"
    /\ ByteOrder(options) = "Big"
    /\ written_buffer(Writer) = <<0, 0, 0, SINGLE_BYTE_MAX + 1>>

\* The Options of scenario S4: the defaults, with the integer encoding i.
DefaultWith(i) == InternalOptions(with_int_encoding(DefaultOptions, i))

\* C18, as claimed: ComplexEnum::B(1, -1) is written as 00 00 00 01 01 ff
\* under fixint and as 01 01 01 under varint, the other Options at their
\* defaults.
ScenarioS4Claimed ==
    (call.op = "serialize" /\ call.res = "Ok" /\ value = ComplexEnum_B) =>
        /\ options = DefaultWith("Fixint") => written_buffer(Writer) = <<0, 0, 0, 1, 1, 255>>
        /\ options = DefaultWith("Varint") => written_buffer(Writer) = <<1, 1, 1>>

\* C18, amended: ComplexEnum::B(1, -1) is written as 01 00 00 00 01 ff under
\* fixint (the u32 1 in little-endian order, the u8 1, the i8 -1) and as
\* 01 01 ff under varint, the other Options at their defaults.
ScenarioS4 ==
    (call.op = "serialize" /\ call.res = "Ok" /\ value = ComplexEnum_B) =>
        /\ options = DefaultWith("Fixint") => written_buffer(Writer) = <<1, 0, 0, 0, 1, 255>>
        /\ options = DefaultWith("Varint") => written_buffer(Writer) = <<1, 1, 255>>

\* ComplexEnum::B(1, -1) was written under fixint and the defaults: 6 bytes,
\* as serialize_size said.
ScenarioS4Witness ==
    /\ call.op = "serialize"
    /\ call.res = "Ok"
    /\ value = ComplexEnum_B
    /\ options = DefaultWith("Fixint")
    /\ call.size = 6
    /\ written_buffer(Writer) = <<1, 0, 0, 0, 1, 255>>

\* The bytes a serialize of v alone writes, with the session's Options and
\* writer kind, into a cleared buffer of the session's capacity.
BytesOf(v) == written_buffer(serialize(v, call.kind, FreshWriter, options).w)

RECURSIVE Concat(_)
Concat(qs) == IF qs = <<>> THEN <<>> ELSE Head(qs) \o Concat(Tail(qs))

\* C19: No framing.  A serialize that succeeds writes, for a tuple, tuple
\* struct or struct, the bytes of its fields one after the other in
\* declaration order and nothing else; for a unit or a unit struct (which
\* is what PhantomData serializes as), no byte; for a newtype struct, the
\* bytes of its inner value; for a &str or &[u8], the bytes of its length as
\* a u64 followed by its bytes as they are.  (1u16, 2u32, b"test", "tesT")
\* under the default Options is 01 02 04 74 65 73 74 04 74 65 73 54.
NoFraming ==
    (call.op = "serialize" /\ call.res = "Ok") =>
        /\ value.t \in {"tuple", "tuple_struct", "struct"}
           => written_buffer(Writer) = Concat([i \in 1..Len(value.kids) |-> BytesOf(value.kids[i])])
        /\ value.t \in {"unit", "unit_struct"} => written_buffer(Writer) = <<>>
        /\ value.t = "newtype_struct" => written_buffer(Writer) = BytesOf(value.kids[1])
        /\ value.t \in {"str", "bytes"}
           => written_buffer(Writer) =
                 BytesOf(V("u64", FromNat(Len(value.n), 8), <<>>)) \o value.n
        /\ (value = simple_tuple /\ options = InternalOptions(DefaultOptions))
           => written_buffer(Writer) = <<1, 2, 4, 116, 101, 115, 116, 4, 116, 101, 115, 84>>

\* simple_tuple was written under the default Options: 12 bytes.
NoFramingWitness ==
    /\ call.op = "serialize"
    /\ call.res = "Ok"
    /\ value = simple_tuple
    /\ options = InternalOptions(DefaultOptions)
    /\ index = 12
    /\ written_buffer(Writer)[3] = 4

\* What a deserialize of a char does with a leading byte of width w (0: not
\* a leading byte): it reads the leading byte; for w = 0 it fails with
\* InvalidCharEncoding and reads no more; otherwise it reads w - 1 more
\* bytes one by one, or as many as the input has and then fails on the next.
CharReads(w) ==
    LET n == Len(call.input)
    IN  /\ w = 0 => /\ call.res = "InvalidCharEncoding"
                    /\ Len(call.trace) = 1
                    /\ Consumed = 1
        /\ (w > 0 /\ n >= w) => /\ call.res \in {"Ok", "Utf8"}
                                /\ Len(call.trace) = w
                                /\ Consumed = w
        /\ (w > 0 /\ n < w) => /\ call.res \in {"Read(EndOfInput)", "Read(EndOfSlice)"}
                               /\ Len(call.trace) = n + 1
                               /\ Consumed = n

\* C20, as claimed: the width of a char is what the leading bits of its
\* first byte announce (0xxxxxxx 1, 110xxxxx 2, 1110xxxx 3, 11110xxx 4);
\* every other first byte fails with InvalidCharEncoding and nothing more is
\* read; for a leading byte, width - 1 more bytes are read.
CharWidthOfBits ==
    (call.op = "deserialize" /\ target.t = "char" /\ call.input # <<>>)
    => CharReads(utf8_char_width_of_bits(call.input[1]))

\* The width of a leading byte that a well-formed UTF-8 sequence can start with.
LeaderWidth(b) ==
    CASE b \in 0..127 -> 1
      [] b \in 194..223 -> 2
      [] b \in 224..239 -> 3
      [] b \in 240..244 -> 4
      [] OTHER -> 0

\* C20, amended: the width of a char is decided by its first byte alone:
\* 00..7f gives 1, c2..df gives 2, e0..ef gives 3, f0..f4 gives 4; every
\* other first byte (80..c1, f5..ff) fails with InvalidCharEncoding and
\* nothing more is read; for a leading byte, width - 1 more bytes are read
\* (or the input ends first and the read fails).
CharWidth ==
    (call.op = "deserialize" /\ target.t = "char" /\ call.input # <<>>)
    => CharReads(LeaderWidth(call.input[1]))

\* A char was read from c0 80 80 80 07: InvalidCharEncoding after one read,
\* the four other bytes left.
CharWidthWitness ==
    /\ call.op = "deserialize"
    /\ target.t = "char"
    /\ call.input = <<192, 128, 128, 128, 7>>
    /\ call.res = "InvalidCharEncoding"
    /\ Len(call.trace) = 1
    /\ reader = <<128, 128, 128, 7>>

---------------------------------------------------------------------------
(* The meter alone: a limit is chosen and add is called on it some times.  *)
(* `options` holds the meter; `call` keeps the last add, the limit the     *)
(* meter started with and the sum of the n that were added.                *)

\* Largest initial limit, largest n of an add, and number of adds.
MaxBudget == 4
MaxAdd == 5
MaxAdds == 3

InitLimit ==
    /\ buffer = <<>>
    /\ index = 0
    /\ \E l \in {Infinite} \cup {Bounded(k) : k \in 0..MaxBudget} :
          /\ options = [InternalOptions(DefaultOptions) EXCEPT !.limit = l]
          /\ call = [op |-> "new", calls |-> 0, sum |-> 0, initial |-> l]
    /\ native \in Targets
    /\ reader = <<>>
    /\ target = Ty("unit", <<>>)
    /\ value = V("unit", <<>>, <<>>)

\* SizeLimit::add(&mut self, n)
Add(n) ==
    /\ call.calls < MaxAdds
    /\ LET r == SizeLimit_add(options.limit, n)
       IN  /\ options' = [options EXCEPT !.limit = r.limit]
           /\ call' = [op |-> "add", n |-> n, res |-> r.res, before |-> options.limit,
                       calls |-> call.calls + 1, initial |-> call.initial,
                       sum |-> call.sum + (IF r.res = "Ok" THEN n ELSE 0)]
    /\ UNCHANGED <<buffer, index, native, reader, target, value>>

NextLimit == \E n \in 0..MaxAdd : Add(n)

SpecLimit == InitLimit /\ [][NextLimit]_vars

\* C21: Size-limit meter.  Bounded(k).add(n) succeeds and leaves k - n when
\* n <= k (n = k too), and otherwise fails with LimitReached and leaves k;
\* Infinite.add(n) succeeds.  So the budget never grows and never goes
\* below 0, and the n that were added sum up to what the budget lost, which
\* is at most the limit the meter started with.
LimitMeter ==
    call.op = "add" =>
        LET was == call.before
            now == options.limit
        IN  /\ (was.bounded /\ call.n <= was.k) => call.res = "Ok" /\ now = Bounded(was.k - call.n)
            /\ (was.bounded /\ call.n > was.k) => call.res = "LimitReached" /\ now = was
            /\ ~was.bounded => call.res = "Ok" /\ now = Infinite
            /\ was.bounded => /\ now.k <= was.k
                              /\ now.k >= 0
                              /\ call.sum = call.initial.k - now.k
                              /\ call.sum <= call.initial.k

\* Bounded(3) took an add of 1 and then an add of 2, which used it up.
LimitMeterWitness ==
    /\ call.op = "add"
    /\ call.initial = Bounded(3)
    /\ call.calls = 2
    /\ call.n = 2
    /\ call.before = Bounded(2)
    /\ call.res = "Ok"
    /\ options.limit = Bounded(0)

\* The signed integers that VarintEncoding widens to an i64.
Signed64 == {"i16", "i32", "i64"}

\* C22: Signed varint.  Under VarintEncoding an i16, i32 or i64 is written
\* as the bytes of the u64 zigzag_encode of its sign extension, and read as
\* the zigzag_decode of the u64 that a read of a u64 returns from the same
\* input (failing as that read fails, and with InvalidCast when the decoded
\* i64 is outside the type); -1i64 is written as 01 and i64::MIN as
\* fd ff ff ff ff ff ff ff ff.
SignedVarint ==
    /\ (call.op = "deserialize" /\ target.t \in Signed64 /\ options.int = "Varint") =>
          LET u == deserialize(Ty("u64", <<>>), call.rkind, call.input, options)
              w == size_of(target.t)
              z == zigzag_decode(u.out.n)
          IN  /\ reader = u.reader
              /\ u.res # "Ok" => call.res = u.res
              /\ (u.res = "Ok" /\ SignExt(Trunc(z, w), 8) = z)
                 => call.res = "Ok" /\ call.out = V(target.t, Trunc(z, w), <<>>)
              /\ (u.res = "Ok" /\ SignExt(Trunc(z, w), 8) # z)
                 => call.res = InvalidCast(target.t)
    /\ (call.op = "serialize" /\ value.t \in Signed64 /\ options.int = "Varint") =>
          LET u == V("u64", zigzag_encode(SignExt(value.n, 8)), <<>>)
              x == serialize(u, "ref", FreshWriter, options)
          IN  /\ call.res = x.res
              /\ written_buffer(Writer) = written_buffer(x.w)
              /\ value.n = AllOnes(8) => written_buffer(Writer) = <<1>>
              /\ value.n = SignBit(8) => written_buffer(Writer) = <<U64_BYTE>> \o AllOnes(8)

\* i64::MIN was read from fd ff ff ff ff ff ff ff ff and written again as
\* the same 9 bytes.
SignedVarintWitness ==
    /\ call.op = "serialize"
    /\ call.res = "Ok"
    /\ options.int = "Varint"
    /\ call.input = <<U64_BYTE>> \o AllOnes(8)
    /\ value = V("i64", SignBit(8), <<>>)
    /\ written_buffer(Writer) = call.input

\* a + b of two integers of one width, byte by byte with the carry (the
\* carry out of the last byte is dropped)
RECURSIVE PlusCarry(_, _, _)
PlusCarry(a, b, c) ==
    IF a = <<>> THEN <<>>
    ELSE <<(a[1] + b[1] + c) % 256>> \o PlusCarry(Tail(a), Tail(b), (a[1] + b[1] + c) \div 256)

\* 2 * a at 72 bits, for an a of 64 bits
Twice(a) == PlusCarry(ZeroExt(a, 9), ZeroExt(a, 9), 0)

\* |n| of a negative i64, as a u64
Magnitude(n) == Add1(BitNot(n))

\* C23: Zigzag values.  zigzag_encode(n) is 2n for n >= 0 and 2|n| - 1 for
\* n < 0; zigzag_decode(m) is m / 2 for an even m and -(m + 1) / 2 for an
\* odd m.  zz(0) = 0, zz(-1) = 1, zz(1) = 2, zz(i64::MIN) = u64::MAX and
\* zz(i64::MAX) = u64::MAX - 1.
ZigzagValues ==
    /\ (call.op = "zigzag_encode" /\ Len(call.arg) = 8) =>
          LET n == call.arg
              zz == call.out
          IN  /\ ~IsNeg(n) => ZeroExt(zz, 9) = Twice(n)
              /\ IsNeg(n) => ZeroExt(zz, 9) = Sub1(Twice(Magnitude(n)))
              /\ n = FromNat(0, 8) => zz = FromNat(0, 8)
              /\ n = AllOnes(8) => zz = FromNat(1, 8)
              /\ n = FromNat(1, 8) => zz = FromNat(2, 8)
              /\ n = SignBit(8) => zz = AllOnes(8)
              /\ n = BitNot(SignBit(8)) => zz = Sub1(AllOnes(8))
    /\ (call.op = "zigzag_decode" /\ Len(call.arg) = 8) =>
          LET m == call.arg
              n == call.out
          IN  /\ IsEven(m) => ~IsNeg(n) /\ Twice(n) = ZeroExt(m, 9)
              /\ ~IsEven(m) => IsNeg(n) /\ Twice(Magnitude(n)) = Add1(ZeroExt(m, 9))

\* zigzag_encode(i64::MAX) returned u64::MAX - 1.
ZigzagValuesWitness ==
    /\ call.op = "zigzag_encode"
    /\ call.steps = 1
    /\ call.arg = BitNot(SignBit(8))
    /\ call.out = Sub1(AllOnes(8))

\* The size the format gives an integer: the width of its type under
\* FixintEncoding; under VarintEncoding 1, 3, 5, 9 or 17 by the thresholds,
\* for the integer itself or the zigzag code of a signed one.
WireSize(v) ==
    IF options.int = "Fixint"
    THEN CASE v.t \in {"u16", "i16"} -> 2
           [] v.t \in {"u32", "i32"} -> 4
           [] v.t \in {"u64", "i64"} -> 8
           [] v.t \in {"u128", "i128"} -> 16
    ELSE LET u == Encoded(v)
         IN  IF ULeq(u, FromNat(250, 16)) THEN 1
             ELSE IF ULeq(u, MaxOfBytes(2, 16)) THEN 3
             ELSE IF ULeq(u, MaxOfBytes(4, 16)) THEN 5
             ELSE IF ULeq(u, MaxOfBytes(8, 16)) THEN 9
             ELSE 17

\* C24: The integer size function agrees with the encoder.  For an integer
\* of each of the 8 types and each encoding, serialize_size returns the
\* size the format gives it, and a serialize that succeeds has written
\* exactly that many bytes.
IntSizeAgreement ==
    /\ (call.op = "serialize_size" /\ value.t \in IntTypes)
       => call.res = "Ok" /\ call.size = WireSize(value)
    /\ (call.op = "serialize" /\ value.t \in IntTypes /\ call.res = "Ok")
       => written_len(Writer) = call.size /\ written_len(Writer) = WireSize(value)

\* i128::MIN, whose zigzag code is u128::MAX, was measured at 17 bytes and
\* written in 17 bytes.
IntSizeAgreementWitness ==
    /\ call.op = "serialize"
    /\ call.res = "Ok"
    /\ options.int = "Varint"
    /\ value = V("i128", SignBit(16), <<>>)
    /\ call.size = 17
    /\ written_len(Writer) = 17

\* C25: Meter before read.  In the trace of a deserialize every request to
\* the reader comes right after a charge of the limit meter that succeeded
\* and was for the number of bytes of the request, and a charge that fails
\* with LimitReached is the last event: the reader is not asked again.
MeterBeforeRead ==
    call.op = "deserialize" =>
        \A i \in 1..Len(call.trace) :
            LET e == call.trace[i]
            IN  /\ e.ev = "read" =>
                      /\ i > 1
                      /\ call.trace[i - 1].ev = "add"
                      /\ call.trace[i - 1].res = "Ok"
                      /\ FitsNat(e.n)
                      /\ call.trace[i - 1].n = ToNat(e.n)
                /\ (e.ev = "add" /\ e.res = "LimitReached") => i = Len(call.trace)

\* C26: Discriminator byte 254.  Under VarintEncoding a read that gets the
\* leading byte 254 goes on, for a u128 or an i128, to the 16 bytes of a
\* u128 in the configured byte order and returns it (its zigzag_decode for
\* an i128), having consumed 17 bytes; for a u16, u32, u64, i16, i32, i64,
\* a length or a variant index it fails with InvalidValueRange having
\* consumed the one byte.
Discriminator254 ==
    (/\ call.op = "deserialize"
     /\ options.int = "Varint"
     /\ target.t \in VarintFirst
     /\ call.input # <<>>
     /\ call.input[1] = U128_BYTE
     /\ Admits(1))
    => /\ target.t \notin {"u128", "i128"}
          => call.res = "InvalidValueRange" /\ Consumed = 1
       /\ (target.t \in {"u128", "i128"} /\ Len(call.input) >= 17 /\ Admits(17))
          => LET q == SubSeq(call.input, 2, 17)
                 u == IF ByteOrder(options) = "Little" THEN q ELSE Reverse(q)
             IN  /\ call.res = "Ok"
                 /\ Consumed = 17
                 /\ call.out.t = target.t
                 /\ target.t = "u128" => call.out.n = u
                 /\ target.t = "i128" => zigzag128_encode(call.out.n) = u

\* A u128 was read from 254 and the bytes 1..16.
Discriminator254Witness ==
    /\ call.op = "deserialize"
    /\ options.int = "Varint"
    /\ target.t = "u128"
    /\ call.input = <<U128_BYTE>> \o [i \in 1..16 |-> i]
    /\ call.res = "Ok"
    /\ reader = <<>>
    /\ call.out.n[16] \in {1, 16}

---------------------------------------------------------------------------
(* The accesses alone: deserialize_tuple, deserialize_seq or               *)
(* deserialize_map hands an Access to the visitor, and the visitor asks it *)
(* for elements (or for a key and then its value) until it returns None or *)
(* an error, and some times more.  `call` keeps the Access, what the last  *)
(* call returned, the Access before it, the length the Access started      *)
(* with, the number of calls that found an element left and the values     *)
(* handed out.                                                             *)

\* Largest arity of a tuple and number of calls on one Access.
MaxArity == 2
MaxCalls == 4

AccessTypes ==
    {Ty("tuple", [i \in 1..k |-> Ty(e, <<>>)]) : k \in 0..MaxArity, e \in {"u8", "u16"}}
    \cup {Ty("seq", <<Ty(e, <<>>)>>) : e \in {"u8", "u16"}}
    \cup {Ty("map", <<Ty("u8", <<>>), Ty(e, <<>>)>>) : e \in {"u8", "u16"}}

\* The inputs the accesses read from.
AccessInputs == SeqsUpTo(DecodeBytes, MaxInput) \cup CraftedInputs

InitAccess ==
    /\ buffer = <<>>
    /\ index = 0
    /\ options \in AllOptions
    /\ native \in Targets
    /\ reader \in AccessInputs
    /\ target \in AccessTypes
    /\ value = V("unit", <<>>, <<>>)
    /\ call = [op |-> "new"]

\* What a deserialize_* that makes an Access leaves: the Access handed to the
\* visitor, or the error of reading the length.
Visit(op, d, len) ==
    [op |-> op, access |-> [de |-> d, len |-> len], before |-> [de |-> d, len |-> len],
     ret |-> IF d.res = "Ok" THEN "Access" ELSE "Err", len0 |-> len, taken |-> 0,
     calls |-> 0, got |-> <<>>, input |-> reader]

\* deserialize_tuple(len, visitor), len the arity of the tuple
DeserializeTuple(rkind) ==
    /\ call.op = "new"
    /\ target.t = "tuple"
    /\ call' = Visit("deserialize_tuple", Deserializer_new(rkind, reader, options),
                     FromNat(Len(target.kids), 8))
    /\ UNCHANGED <<buffer, index, options, native, reader, target, value>>

\* deserialize_seq(visitor)
DeserializeSeq(rkind) ==
    /\ call.op = "new"
    /\ target.t = "seq"
    /\ LET d == deserialize_len(Deserializer_new(rkind, reader, options))
       IN  /\ call' = Visit("deserialize_seq", d, d.out)
           /\ reader' = d.reader
    /\ UNCHANGED <<buffer, index, options, native, target, value>>

\* deserialize_map(visitor)
DeserializeMap(rkind) ==
    /\ call.op = "new"
    /\ target.t = "map"
    /\ LET d == deserialize_usize(Deserializer_new(rkind, reader, options))
       IN  /\ call' = Visit("deserialize_map", d, d.out)
           /\ reader' = d.reader
    /\ UNCHANGED <<buffer, index, options, native, target, value>>

\* The type the visitor asks for in its next call.
ElementType ==
    IF target.t = "tuple"
    THEN IF call.calls < Len(target.kids) THEN target.kids[call.calls + 1] ELSE Ty("u8", <<>>)
    ELSE IF target.t = "map" /\ call.op = "next_key" /\ call.ret = "Some" THEN target.kids[2]
    ELSE target.kids[1]

\* What a call on the Access leaves.
Asked(op, r) ==
    [call EXCEPT !.op = op, !.access = r.access, !.before = call.access, !.ret = r.ret,
                 !.taken = call.taken + (IF call.access.len # FromNat(0, 8) /\ op # "next_value"
                                         THEN 1 ELSE 0),
                 !.calls = call.calls + (IF op # "next_value" THEN 1 ELSE 0),
                 !.got = IF r.ret = "Some" THEN Append(call.got, r.access.de.out) ELSE call.got]

\* The visitor goes on after a deserialize_* that gave it an Access and after
\* a call that returned Ok.
Visiting == call.op # "new" /\ call.ret # "Err" /\ call.calls < MaxCalls

\* seq.next_element()
NextElement ==
    /\ Visiting
    /\ target.t \in {"tuple", "seq"}
    /\ \E r \in {next_element_seed(call.access, ElementType)} :
           /\ call' = Asked("next_element", r)
           /\ reader' = r.access.de.reader
    /\ UNCHANGED <<buffer, index, options, native, target, value>>

\* map.next_key()
NextKey ==
    /\ Visiting
    /\ target.t = "map"
    /\ ~(call.op = "next_key" /\ call.ret = "Some")
    /\ \E r \in {next_key_seed(call.access, ElementType)} :
           /\ call' = Asked("next_key", r)
           /\ reader' = r.access.de.reader
    /\ UNCHANGED <<buffer, index, options, native, target, value>>

\* map.next_value(), after a next_key that returned a key
NextValue ==
    /\ Visiting
    /\ target.t = "map"
    /\ call.op = "next_key" /\ call.ret = "Some"
    /\ \E r \in {next_value_seed(call.access, ElementType)} :
           /\ call' = Asked("next_value", r)
           /\ reader' = r.access.de.reader
    /\ UNCHANGED <<buffer, index, options, native, target, value>>

NextAccess ==
    \/ \E rkind \in ReaderKinds : DeserializeTuple(rkind)
    \/ \E rkind \in ReaderKinds : DeserializeSeq(rkind)
    \/ \E rkind \in ReaderKinds : DeserializeMap(rkind)
    \/ NextElement
    \/ NextKey
    \/ NextValue

SpecAccess == InitAccess /\ [][NextAccess]_vars

\* C27: Access counters.  A next_element (or next_key) on an Access with
\* elements left decodes one element from where the reader stands, returns
\* it (or the error of decoding it) and takes 1 off the counter; on an
\* Access with none left it returns None and leaves the reader alone.  So
\* None comes exactly when as many calls were served as the Access was
\* long, and size_hint is the length less the calls served.  In a map each
\* key is followed by a next_value that decodes one value from where the
\* reader stands and leaves the counter alone, so the keys and values
\* handed out alternate and are as many as they come in the input.
AccessCounters ==
    /\ call.op \in {"next_element", "next_key"} =>
          /\ call.before.len # FromNat(0, 8) =>
                /\ call.ret \in {"Some", "Err"}
                /\ call.access.len = Sub1(call.before.len)
                /\ call.ret = "Some" <=> call.access.de.res = "Ok"
                /\ call.ret = "Some" =>
                      /\ Len(call.access.de.reader) < Len(call.before.de.reader)
                      /\ TypeOf(call.access.de.out) \in {target.kids[i] : i \in 1..Len(target.kids)} \cup {Ty("u8", <<>>)}
          /\ call.before.len = FromNat(0, 8) =>
                /\ call.ret = "None"
                /\ call.access = call.before
                /\ reader = call.before.de.reader
          /\ call.ret = "None" <=> call.len0 = FromNat(call.taken, 8) /\ call.calls > call.taken
    /\ call.op = "next_value" =>
          /\ call.access.len = call.before.len
          /\ call.ret = "Some" <=> call.access.de.res = "Ok"
          /\ call.ret = "Some" => /\ Len(call.got) % 2 = 0
                                  /\ TypeOf(call.got[Len(call.got)]) = target.kids[2]
                                  /\ TypeOf(call.got[Len(call.got) - 1]) = target.kids[1]
    /\ call.op \in {"next_element", "next_key", "next_value"} =>
          /\ size_hint(call.access) = SubN(call.len0, call.taken)
          /\ call.ret # "Err" => Len(call.got) = (IF target.t = "map" THEN 2 ELSE 1) * call.taken
                                              - (IF call.op = "next_key" /\ call.ret = "Some" THEN 1 ELSE 0)
          /\ call.ret = "None" =>
                LET whole == deserialize(target, call.access.de.rkind, call.input, options)
                IN  /\ whole.res = "Ok"
                    /\ whole.out.kids = call.got
                    /\ whole.reader = reader

\* A tuple of 2 u8 was asked for a third element after its two: None.
AccessCountersWitness ==
    /\ call.op = "next_element"
    /\ target.t = "tuple"
    /\ call.len0 = FromNat(2, 8)
    /\ call.calls = 3
    /\ call.taken = 2
    /\ call.ret = "None"
    /\ Len(call.got) = 2

\* C28: BufferWriter invariant.  After every write and write_all (one
\* that panics too), written_len() is between 0 and the capacity, is the number of
\* single-byte writes that returned Ok and is not below what it was;
\* written_buffer() is the bytes of those writes in their order; and the
\* bytes written before the call are where they were.
WriterInvariant ==
    call.op \in {"write", "write_all"} =>
        /\ 0 <= written_len(Writer)
        /\ written_len(Writer) <= Len(buffer)
        /\ Len(buffer) = Len(call.before.buffer)
        /\ written_len(Writer) = Len(call.log)
        /\ written_len(Writer) >= call.before.index
        /\ written_buffer(Writer) = call.log
        /\ SubSeq(buffer, 1, call.before.index) = written_buffer(call.before)

\* A writer of capacity 2 took a write of 1 and then a write of 255.
WriterInvariantWitness ==
    /\ call.op = "write"
    /\ call.res = "Ok"
    /\ call.before.index = 1
    /\ call.log = <<1, 255>>
    /\ written_buffer(Writer) = <<1, 255>>

\* C29: Partial output on a failed serialize.  When a serialize into a
\* `&mut BufferWriter` fails with BufferTooSmall, the writer is full and
\* holds the first bytes of what the same serialize writes into a buffer of
\* the size serialize_size returned.
PartialOutput ==
    (call.op = "serialize" /\ call.kind = "ref" /\ call.res = "Write(BufferTooSmall)") =>
        LET ample == serialize(value, "ref", BufferWriter_new([i \in 1..call.size |-> 0]), options)
        IN  /\ ample.res = "Ok"
            /\ written_len(ample.w) > Len(buffer)
            /\ written_len(Writer) = Len(buffer)
            /\ written_buffer(Writer) = SubSeq(written_buffer(ample.w), 1, Len(buffer))

\* simple_tuple did not fit a BufferWriter over 2 bytes: 01 02 were written.
PartialOutputWitness ==
    /\ call.op = "serialize"
    /\ call.kind = "ref"
    /\ call.res = "Write(BufferTooSmall)"
    /\ value = simple_tuple
    /\ options = InternalOptions(DefaultOptions)
    /\ written_buffer(Writer) = <<1, 2>>

\* The number of bytes of the literal that follows the discriminator b.
FormWidth(b) == IF b = U16_BYTE THEN 2 ELSE IF b = U32_BYTE THEN 4 ELSE 8

\* C30: Non-canonical varints are accepted.  Under VarintEncoding a read of
\* a u64 or a u128 that gets the leading byte 251, 252 or 253 and the 2, 4
\* or 8 bytes after it returns the value of those bytes in the configured
\* byte order, whatever that value is: a value that would have fit a
\* shorter form (251 and a u16 of at most 250, 252 and a u32 below 2^16,
\* 253 and a u64 below 2^32) decodes to that value and does not fail.
NonCanonicalAccepted ==
    (/\ call.op = "deserialize"
     /\ options.int = "Varint"
     /\ target.t \in {"u64", "u128"}
     /\ call.input # <<>>
     /\ call.input[1] \in {U16_BYTE, U32_BYTE, U64_BYTE}
     /\ Len(call.input) >= 1 + FormWidth(call.input[1])
     /\ Admits(1 + FormWidth(call.input[1])))
    => LET w == FormWidth(call.input[1])
           q == SubSeq(call.input, 2, 1 + w)
           u == IF ByteOrder(options) = "Little" THEN q ELSE Reverse(q)
       IN  /\ call.res = "Ok"
           /\ Consumed = 1 + w
           /\ call.out.t = target.t
           /\ call.out.n = ZeroExt(u, IF target.t = "u64" THEN 8 ELSE 16)

\* 251 and the little-endian u16 250 were read as the u64 250.
NonCanonicalAcceptedWitness ==
    /\ call.op = "deserialize"
    /\ options.int = "Varint"
    /\ ByteOrder(options) = "Little"
    /\ target.t = "u64"
    /\ call.input = <<U16_BYTE, 250, 0>>
    /\ call.res = "Ok"
    /\ reader = <<>>
    /\ call.out.n = FromNat(SINGLE_BYTE_MAX, 8)

===========================================================================
